---- MODULE Spec2Model ----
(***************************************************************************)
(* Model of the FreeScout MCP adapter: the resilient API client            *)
(* (FreeScoutAPI.request / retryWithBackoff and the thread operations),    *)
(* the reply renderer (markdownToHtml) and the content normalizer          *)
(* (TicketAnalyzer.stripHtml).                                             *)
(*                                                                         *)
(* Strings are sequences of one-character strings, so that substring       *)
(* tests, replacements and conversions are computed, not assumed.          *)
(***************************************************************************)
EXTENDS Integers, Sequences, FiniteSets, TLC

\* ------------------------------------------------------------------------
\* Bounds of the model
\* ------------------------------------------------------------------------

\* maxRetries is drawn from 0..MaxRetriesBound
MaxRetriesBound == 3

\* stripHtml inputs are all concatenations of at most MaxStripTokens pieces
\* drawn from StripTokens
MaxStripTokens == 3

\* markdownToHtml inputs are all texts of 1..MaxMdLines lines drawn from
\* MdLineSamples
MaxMdLines == 3

\* Largest number of tokens in an input of parseTicketInput
MaxParseTokens == 3

\* Largest number of threads in a conversation handed to analyzeConversation
MaxThreads == 2

\* Largest number of earlier calls kept for one analyzer
MaxAnalyzerCalls == 2

\* Largest number of request calls in flight on one client
MaxCalls == 2

\* ------------------------------------------------------------------------
\* String helpers (JavaScript String semantics on character sequences)
\* ------------------------------------------------------------------------

Min(a, b) == IF a <= b THEN a ELSE b

Pow2(n) == 2 ^ n

\* String.prototype.startsWith at a position (1-based)
MatchAt(s, i, t) ==
  /\ i >= 1
  /\ i + Len(t) - 1 <= Len(s)
  /\ SubSeq(s, i, i + Len(t) - 1) = t

\* String.prototype.includes
Includes(s, t) == \E i \in 1..(Len(s) - Len(t) + 1) : MatchAt(s, i, t)

\* The least element of a non-empty set of integers
First(S) == CHOOSE x \in S : \A y \in S : x <= y

\* String.prototype.indexOf from a position (1-based); 0 if not found
IndexOf(s, from, t) ==
  LET S == {i \in from..(Len(s) - Len(t) + 1) : MatchAt(s, i, t)}
  IN IF S = {} THEN 0 ELSE First(S)

DigitChars == <<"0", "1", "2", "3", "4", "5", "6", "7", "8", "9">>

\* Number.prototype.toString / template-literal interpolation of a
\* non-negative integer
RECURSIVE ToStr(_)
ToStr(n) == IF n < 10 THEN <<DigitChars[n + 1]>>
            ELSE ToStr(n \div 10) \o <<DigitChars[(n % 10) + 1]>>

\* Flatten a sequence of strings, putting sep between the elements
\* (Array.prototype.join)
RECURSIVE Join(_, _)
Join(parts, sep) ==
  IF Len(parts) = 0 THEN <<>>
  ELSE IF Len(parts) = 1 THEN parts[1]
  ELSE parts[1] \o sep \o Join(Tail(parts), sep)

IsSpace(c) == c \in {" ", "\n", "\t", "\r"}

IsDigit(c) == c \in {"0", "1", "2", "3", "4", "5", "6", "7", "8", "9"}

RECURSIVE TrimStart(_)
TrimStart(s) == IF Len(s) > 0 /\ IsSpace(s[1]) THEN TrimStart(Tail(s)) ELSE s

RECURSIVE TrimEnd(_)
TrimEnd(s) == IF Len(s) > 0 /\ IsSpace(s[Len(s)])
              THEN TrimEnd(SubSeq(s, 1, Len(s) - 1)) ELSE s

\* String.prototype.trim
Trim(s) == TrimEnd(TrimStart(s))

\* String.prototype.replace(/t/g, r) for a literal pattern t
RECURSIVE ReplaceAll(_, _, _)
ReplaceAll(s, t, r) ==
  LET i == IndexOf(s, 1, t)
  IN IF i = 0 THEN s
     ELSE SubSeq(s, 1, i - 1) \o r \o ReplaceAll(SubSeq(s, i + Len(t), Len(s)), t, r)

\* ------------------------------------------------------------------------
\* Errors raised by the API client
\* ------------------------------------------------------------------------

\* new Error(`FreeScout API rate limit (429): ${errorText}`)
RateLimitError(errorText) == <<"F","r","e","e","S","c","o","u","t"," ","A","P","I"," ","r","a","t","e"," ","l","i","m","i","t"," ","(","4","2","9",")",":"," ">> \o errorText

\* new Error(`FreeScout API server error (${response.status}): ${errorText}`)
ServerError(status, errorText) ==
  <<"F","r","e","e","S","c","o","u","t"," ","A","P","I"," ","s","e","r","v","e","r"," ","e","r","r","o","r"," ","(">> \o ToStr(status) \o <<")",":"," ">> \o errorText

\* new Error(`FreeScout API error: ${response.status} - ${errorText}`)
ApiError(status, errorText) ==
  <<"F","r","e","e","S","c","o","u","t"," ","A","P","I"," ","e","r","r","o","r",":"," ">> \o ToStr(status) \o <<" ","-"," ">> \o errorText

\* new Error(`FreeScout API timeout after ${this.retryOptions.timeout}ms`)
TimeoutError(timeout) == <<"F","r","e","e","S","c","o","u","t"," ","A","P","I"," ","t","i","m","e","o","u","t"," ","a","f","t","e","r"," ">> \o ToStr(timeout) \o <<"m","s">>

\* The error request throws for a response that is not ok
StatusError(status, errorText) ==
  IF status = 429 THEN RateLimitError(errorText)
  ELSE IF status >= 500 THEN ServerError(status, errorText)
  ELSE ApiError(status, errorText)

\* response.ok
ResponseOk(status) == status >= 200 /\ status <= 299

\* retryWithBackoff: the retryability predicate on the error message
isRetryable(message) ==
  \/ Includes(message, <<"E","C","O","N","N","R","E","S","E","T">>)
  \/ Includes(message, <<"E","T","I","M","E","D","O","U","T">>)
  \/ Includes(message, <<"4","2","9">>)
  \/ Includes(message, <<"5","0","3">>)
  \/ Includes(message, <<"5","0","2">>)

\* BackoffDelay without the cap at maxDelay
BackoffDelayUncapped(opts, count, rnd) == opts.initialDelay * Pow2(count) + rnd

\* retryWithBackoff: the backoff delay before the retry that follows
\* attempt number retryCount (Math.random() * 1000 is the jitter)
BackoffDelay(opts, count, rnd) ==
  Min(opts.initialDelay * Pow2(count) + rnd, opts.maxDelay)

\* ------------------------------------------------------------------------
\* Reply renderer: FreeScoutAPI.markdownToHtml
\* ------------------------------------------------------------------------

\* The backtick character (it cannot be written in a string literal here)
Backtick == "BACKTICK"

\* The dot of a JavaScript regular expression matches no line terminator
IsLineTerminator(c) == c \in {"\n", "\r"}

\* End of a lazy /d(.*?)d/ match: the first position j >= from where the
\* closing delimiter d starts, with no line terminator before it; 0 if none
FindClose(s, from, d) ==
  LET j == IndexOf(s, from, d)
  IN IF j # 0 /\ \A k \in from..(j - 1) : ~IsLineTerminator(s[k]) THEN j ELSE 0

\* s.replace(/d(.*?)d/g, open + '$1' + close) for a literal delimiter d
RECURSIVE ReplaceDelimited(_, _, _, _)
ReplaceDelimited(s, d, open, close) ==
  LET starts == {i \in 1..Len(s) :
                   MatchAt(s, i, d) /\ FindClose(s, i + Len(d), d) # 0}
  IN IF starts = {} THEN s
     ELSE LET i == First(starts)
              j == FindClose(s, i + Len(d), d)
          IN SubSeq(s, 1, i - 1) \o open \o SubSeq(s, i + Len(d), j - 1) \o close
               \o ReplaceDelimited(SubSeq(s, j + Len(d), Len(s)), d, open, close)

\* First position >= from holding the character c; 0 if none
NextChar(s, from, c) == IndexOf(s, from, <<c>>)

\* /(?<!c)c([^c]+)c(?!c)/ matches at position k of s
ItalicAt(s, k, c) ==
  LET j == NextChar(s, k + 1, c)
  IN /\ s[k] = c
     /\ (k = 1 \/ s[k - 1] # c)
     /\ j > k + 1
     /\ (j = Len(s) \/ s[j + 1] # c)

\* s.replace(/(?<!c)c([^c]+)c(?!c)/g, '<em>$1</em>') from position i on
RECURSIVE ReplaceItalicFrom(_, _, _)
ReplaceItalicFrom(s, i, c) ==
  LET starts == {k \in i..Len(s) : ItalicAt(s, k, c)}
  IN IF starts = {} THEN SubSeq(s, i, Len(s))
     ELSE LET k == First(starts)
              j == NextChar(s, k + 1, c)
          IN SubSeq(s, i, k - 1) \o <<"<","e","m",">">> \o SubSeq(s, k + 1, j - 1) \o <<"<","/","e","m",">">>
               \o ReplaceItalicFrom(s, j + 1, c)

\* markdownToHtml: the inline replacements (bold, italic, code), in the
\* order the code applies them
InlineMarkdown(text) ==
  LET b1 == ReplaceDelimited(text, <<"*","*">>, <<"<","s","t","r","o","n","g",">">>, <<"<","/","s","t","r","o","n","g",">">>)
      b2 == ReplaceDelimited(b1, <<"_","_">>, <<"<","s","t","r","o","n","g",">">>, <<"<","/","s","t","r","o","n","g",">">>)
      i1 == ReplaceItalicFrom(b2, 1, "*")
      i2 == ReplaceItalicFrom(i1, 1, "_")
  IN ReplaceDelimited(i2, <<Backtick>>, <<"<","c","o","d","e",">">>, <<"<","/","c","o","d","e",">">>)

\* String.prototype.split on the newline character
RECURSIVE SplitLines(_)
SplitLines(s) ==
  LET j == NextChar(s, 1, "\n")
  IN IF j = 0 THEN <<s>>
     ELSE <<SubSeq(s, 1, j - 1)>> \o SplitLines(SubSeq(s, j + 1, Len(s)))

\* Length of the leading run of digits / of whitespace of s
RECURSIVE DigitRun(_)
DigitRun(s) == IF Len(s) > 0 /\ IsDigit(s[1]) THEN 1 + DigitRun(Tail(s)) ELSE 0

RECURSIVE SpaceRun(_)
SpaceRun(s) == IF Len(s) > 0 /\ IsSpace(s[1]) THEN 1 + SpaceRun(Tail(s)) ELSE 0

\* Length of the match of /^\d+\.\s+/ at the start of s; 0 if no match
OrderedPrefix(s) ==
  LET d == DigitRun(s)
      rest == SubSeq(s, d + 2, Len(s))
  IN IF d > 0 /\ Len(s) > d /\ s[d + 1] = "." /\ SpaceRun(rest) > 0
     THEN d + 1 + SpaceRun(rest) ELSE 0

\* Length of the match of /^[-*]\s+/ at the start of s; 0 if no match
BulletPrefix(s) ==
  IF Len(s) > 0 /\ s[1] \in {"-", "*"} /\ SpaceRun(Tail(s)) > 0
  THEN 1 + SpaceRun(Tail(s)) ELSE 0

\* The predicate of the findIndex lookahead: a non-empty list-item line
IsListItemLine(line) ==
  LET t == Trim(line)
  IN Len(t) > 0 /\ (OrderedPrefix(t) > 0 \/ BulletPrefix(t) > 0)

\* The paragraph element: <p>, currentParagraph.join(<br>), </p>
ParagraphHtml(para) == <<"<","p",">">> \o Join(para, <<"<","b","r",">">>) \o <<"<","/","p",">">>

\* processedLines after flushing the paragraph buffer, if it is not empty
FlushParagraph(out, para) ==
  IF Len(para) > 0 THEN Append(out, ParagraphHtml(para)) ELSE out

\* Closing the ordered list only
CloseListsOrderedOnly(out, inOl, inUl) ==
  IF inOl THEN Append(out, <<"<","/","o","l",">">>) ELSE out

\* processedLines after closing whichever list is open
CloseLists(out, inOl, inUl) ==
  LET o1 == IF inOl THEN Append(out, <<"<","/","o","l",">">>) ELSE out
  IN IF inUl THEN Append(o1, <<"<","/","u","l",">">>) ELSE o1

\* nextListItemIndex !== -1: findIndex over the lines after line i
NextListItemFound(lines, i) ==
  \E k \in (i + 1)..Len(lines) : IsListItemLine(lines[k])

\* State of the line loop before any line is read
LoopInit ==
  [i |-> 1, processedLines |-> <<>>, inOrderedList |-> FALSE,
   inUnorderedList |-> FALSE, currentParagraph |-> <<>>]

\* One iteration of the line loop of markdownToHtml on lines[st.i]
LoopStep(lines, st) ==
  LET trimmedLine == Trim(lines[st.i])
      next == [st EXCEPT !.i = st.i + 1]
      hasNextListItem == NextListItemFound(lines, st.i)
  IN IF Len(trimmedLine) = 0
     THEN IF (st.inOrderedList \/ st.inUnorderedList) /\ hasNextListItem
          THEN next
          ELSE [next EXCEPT
                 !.processedLines =
                    FlushParagraph(CloseLists(st.processedLines, st.inOrderedList,
                                              st.inUnorderedList),
                                   st.currentParagraph),
                 !.inOrderedList = FALSE,
                 !.inUnorderedList = FALSE,
                 !.currentParagraph = <<>>]
     ELSE IF OrderedPrefix(trimmedLine) > 0
     THEN LET flushed == FlushParagraph(st.processedLines, st.currentParagraph)
              opened == IF st.inOrderedList THEN flushed
                        ELSE Append(CloseLists(flushed, FALSE, st.inUnorderedList),
                                    <<"<","o","l",">">>)
              content == SubSeq(trimmedLine, OrderedPrefix(trimmedLine) + 1,
                                Len(trimmedLine))
          IN [next EXCEPT
               !.processedLines = Append(opened, <<"<","l","i",">">> \o content \o <<"<","/","l","i",">">>),
               !.inOrderedList = TRUE,
               !.inUnorderedList = IF st.inOrderedList THEN st.inUnorderedList ELSE FALSE,
               !.currentParagraph = <<>>]
     ELSE IF BulletPrefix(trimmedLine) > 0
     THEN LET flushed == FlushParagraph(st.processedLines, st.currentParagraph)
              opened == IF st.inUnorderedList THEN flushed
                        ELSE Append(CloseLists(flushed, st.inOrderedList, FALSE),
                                    <<"<","u","l",">">>)
              content == SubSeq(trimmedLine, BulletPrefix(trimmedLine) + 1,
                                Len(trimmedLine))
          IN [next EXCEPT
               !.processedLines = Append(opened, <<"<","l","i",">">> \o content \o <<"<","/","l","i",">">>),
               !.inUnorderedList = TRUE,
               !.inOrderedList = IF st.inUnorderedList THEN st.inOrderedList ELSE FALSE,
               !.currentParagraph = <<>>]
     ELSE [next EXCEPT
            !.processedLines = CloseLists(st.processedLines, st.inOrderedList,
                                          st.inUnorderedList),
            !.inOrderedList = FALSE,
            !.inUnorderedList = FALSE,
            !.currentParagraph = Append(st.currentParagraph, trimmedLine)]

\* The line loop run to the end of lines
RECURSIVE RunLoop(_, _)
RunLoop(lines, st) ==
  IF st.i > Len(lines) THEN st ELSE RunLoop(lines, LoopStep(lines, st))

\* After the loop: close the remaining list, flush the remaining paragraph,
\* processedLines.join on a blank line
LoopFinish(st) ==
  Join(FlushParagraph(CloseLists(st.processedLines, st.inOrderedList,
                                 st.inUnorderedList),
                      st.currentParagraph),
       <<"\n","\n">>)

\* FreeScoutAPI.markdownToHtml
markdownToHtml(text) ==
  LoopFinish(RunLoop(SplitLines(InlineMarkdown(text)), LoopInit))

\* ------------------------------------------------------------------------
\* API client: configuration, operations and the requests they build
\* ------------------------------------------------------------------------

\* Defaults of the constructor's retryOptions
DefaultMaxRetries == 3
DefaultInitialDelay == 1000
DefaultMaxDelay == 10000
DefaultTimeout == 30000

\* Math.random() * 1000 lies in [0, JitterRange)
JitterRange == 1000

\* An argument that was not passed, a field that is not set
Undefined == "undefined"

\* The retryOptions a client can be constructed with (the defaults, the
\* options of the test suite and values between them)
RetryOptionChoices ==
  [maxRetries : 0..MaxRetriesBound,
   initialDelay : {0, DefaultInitialDelay},
   maxDelay : {0, 2500, DefaultMaxDelay},
   timeout : {10, DefaultTimeout}]

JitterSamples == {0, 500, JitterRange - 1}

\* Messages of the transport errors fetch can reject with
TransportErrors == {<<"E","C","O","N","N","R","E","S","E","T">>, <<"E","T","I","M","E","D","O","U","T">>, <<"g","e","t","a","d","d","r","i","n","f","o"," ","E","N","O","T","F","O","U","N","D">>}

\* Status codes the backend answers with
Statuses == {200, 201, 400, 404, 429, 500, 502, 503, 504}

\* Body texts of the backend's error responses
ErrorTexts == {<<>>, <<"N","o","t"," ","F","o","u","n","d">>, <<"u","p","s","t","r","e","a","m"," ","r","e","t","u","r","n","e","d"," ","5","0","2">>}

\* Message of the error response.json() rejects with on a malformed body
InvalidJson == <<"I","n","v","a","l","i","d"," ","J","S","O","N">>

TicketIds == {<<"1","2","3">>}

\* Texts handed to addThread and createDraftReply
TextSamples ==
  {<<"T","e","s","t"," ","n","o","t","e">>,
   <<"*","*","b","o","l","d","*","*","\n","\n","-"," ","i","t","e","m">>,
   <<"<","s","c","r","i","p","t",">","a","l","e","r","t","(","1",")","<","/","s","c","r","i","p","t",">","*","*","b","o","l","d","*","*"," ","a","n","d"," ",Backtick,"c","o","d","e",Backtick>>}

\* request(path, method, body) as the operations call it
Request(path, method, body) == [path |-> path, method |-> method, body |-> body]

\* getConversation(ticketId, includeThreads)
getConversation(ticketId, includeThreads) ==
  Request(<<"/","c","o","n","v","e","r","s","a","t","i","o","n","s","/">> \o ticketId
            \o (IF includeThreads THEN <<"?","e","m","b","e","d","=","t","h","r","e","a","d","s">> ELSE <<>>),
          "GET", Undefined)

\* addThread(ticketId, type, text, userId, state): user and state are set
\* on the body only when truthy (a userId that was not passed is 0 here)
addThread(ticketId, type, text, userId, state) ==
  LET hasUser == userId # 0
      hasState == state # Undefined
      body == IF hasUser /\ hasState
                THEN [type |-> type, text |-> text, user |-> userId, state |-> state]
              ELSE IF hasUser
                THEN [type |-> type, text |-> text, user |-> userId]
              ELSE IF hasState
                THEN [type |-> type, text |-> text, state |-> state]
              ELSE [type |-> type, text |-> text]
  IN Request(<<"/","c","o","n","v","e","r","s","a","t","i","o","n","s","/">> \o ticketId \o <<"/","t","h","r","e","a","d","s">>, "POST", body)

\* createDraftReply that posts the reply without the draft state
createDraftReplyPublished(ticketId, text, userId) ==
  addThread(ticketId, "message", markdownToHtml(text), userId, Undefined)

\* createDraftReply(ticketId, text, userId)
createDraftReply(ticketId, text, userId) ==
  addThread(ticketId, "message", markdownToHtml(text), userId, "draft")

\* updateConversation(ticketId, updates)
updateConversation(ticketId, updates) ==
  Request(<<"/","c","o","n","v","e","r","s","a","t","i","o","n","s","/">> \o ticketId, "PUT", updates)

\* No match: the null of String.prototype.match (a capture is never empty)
Null == <<>>

\* The letters, for the character classes of the encoders
LowerLetters == <<"a","b","c","d","e","f","g","h","i","j","k","l","m","n","o","p","q","r","s","t","u","v","w","x","y","z">>

UpperLetters == <<"A","B","C","D","E","F","G","H","I","J","K","L","M","N","O","P","Q","R","S","T","U","V","W","X","Y","Z">>

IsLetter(c) == \E i \in 1..Len(LowerLetters) : c = LowerLetters[i] \/ c = UpperLetters[i]

\* The percent codes of the characters URLSearchParams escapes, for the
\* characters that occur in the filters
PercentCodes ==
  <<<<",", <<"%","2","C">>>>, <<":", <<"%","3","A">>>>, <<"#", <<"%","2","3">>>>, <<"&", <<"%","2","6">>>>,
    <<"=", <<"%","3","D">>>>, <<"+", <<"%","2","B">>>>, <<"/", <<"%","2","F">>>>, <<"?", <<"%","3","F">>>>,
    <<"%", <<"%","2","5">>>>>>

\* application/x-www-form-urlencoded serialization of one character
FormEncodeChar(c) ==
  IF IsLetter(c) \/ IsDigit(c) \/ c \in {"*", "-", ".", "_"} THEN <<c>>
  ELSE IF c = " " THEN <<"+">>
  ELSE LET k == CHOOSE k \in 1..Len(PercentCodes) : PercentCodes[k][1] = c
       IN PercentCodes[k][2]

\* application/x-www-form-urlencoded serialization of a string
RECURSIVE FormEncode(_)
FormEncode(s) ==
  IF Len(s) = 0 THEN <<>> ELSE FormEncodeChar(s[1]) \o FormEncode(Tail(s))

\* params.append(name, value)
Append2(params, name, value) == Append(params, <<name, value>>)

\* URLSearchParams.prototype.toString
RECURSIVE ParamsToString(_)
ParamsToString(params) ==
  IF Len(params) = 0 THEN <<>>
  ELSE FormEncode(params[1][1]) \o <<"=">> \o FormEncode(params[1][2])
         \o (IF Len(params) > 1 THEN <<"&">> ELSE <<>>)
         \o ParamsToString(Tail(params))

\* The characters of an enum value of the filters
StatusName(v) ==
  CASE v = "active" -> <<"a","c","t","i","v","e">>
    [] v = "pending" -> <<"p","e","n","d","i","n","g">>
    [] v = "closed" -> <<"c","l","o","s","e","d">>
    [] v = "spam" -> <<"s","p","a","m">>
    [] v = "all" -> <<"a","l","l">>
    [] v = "published" -> <<"p","u","b","l","i","s","h","e","d">>
    [] v = "deleted" -> <<"d","e","l","e","t","e","d">>

\* A number filter that was not passed (0 is a value of its own for the
\* assignee and the mailbox)
Absent == 0 - 1

\* parseRelativeTime: a count followed by d, h or m gives the ISO instant
\* that long before now, anything else null; the instant depends on the
\* clock and is written now- followed by the argument
parseRelativeTime(relative) ==
  LET n == DigitRun(relative)
  IN IF n > 0 /\ Len(relative) = n + 1 /\ relative[n + 1] \in {"d", "h", "m"}
       THEN <<"n","o","w","-">> \o relative
     ELSE Null

\* parseRelativeTime(value) || value
SinceParam(value) ==
  IF parseRelativeTime(value) # Null THEN parseRelativeTime(value) ELSE value

\* The status filter with 'all' sent as one comma-separated parameter
StatusParamsCommaSeparated(params, statusFilter) ==
  IF statusFilter = Undefined THEN params
  ELSE IF statusFilter = "all"
    THEN Append2(params, <<"s","t","a","t","u","s">>, <<"a","c","t","i","v","e",",","p","e","n","d","i","n","g",",","c","l","o","s","e","d",",","s","p","a","m">>)
  ELSE Append2(params, <<"s","t","a","t","u","s">>, StatusName(statusFilter))

\* The status filter: 'all' appends each of the four statuses, any other
\* status is appended as it is
StatusParams(params, statusFilter) ==
  IF statusFilter = Undefined THEN params
  ELSE IF statusFilter = "all"
    THEN Append2(Append2(Append2(Append2(params,
           <<"s","t","a","t","u","s">>, <<"a","c","t","i","v","e">>), <<"s","t","a","t","u","s">>, <<"p","e","n","d","i","n","g">>),
           <<"s","t","a","t","u","s">>, <<"c","l","o","s","e","d">>), <<"s","t","a","t","u","s">>, <<"s","p","a","m">>)
  ELSE Append2(params, <<"s","t","a","t","u","s">>, StatusName(statusFilter))

\* The assignee filter that drops the id 0 as if it were absent
AssigneeParamsTruthy(params, assignee) ==
  IF assignee.kind = "unassigned" THEN Append2(params, <<"a","s","s","i","g","n","e","e">>, <<"n","u","l","l">>)
  ELSE IF assignee.kind = "id" /\ assignee.id # 0
    THEN Append2(params, <<"a","s","s","i","g","n","e","e">>, ToStr(assignee.id))
  ELSE params

\* The assignee filter: nothing when undefined or 'any', null when
\* 'unassigned', the id otherwise
AssigneeParams(params, assignee) ==
  IF assignee.kind = "undefined" THEN params
  ELSE IF assignee.kind = "unassigned" THEN Append2(params, <<"a","s","s","i","g","n","e","e">>, <<"n","u","l","l">>)
  ELSE IF assignee.kind = "any" THEN params
  ELSE Append2(params, <<"a","s","s","i","g","n","e","e">>, ToStr(assignee.id))

\* The URLSearchParams searchConversations builds from its filters
SearchParams(filters) ==
  LET p1 == IF Len(filters.textSearch) > 0
              THEN Append2(<<>>, <<"q","u","e","r","y">>, Trim(filters.textSearch))
            ELSE <<>>
      p2 == AssigneeParams(p1, filters.assignee)
      p3 == StatusParams(p2, filters.status)
      p4 == IF filters.state # Undefined
              THEN Append2(p3, <<"s","t","a","t","e">>, StatusName(filters.state))
            ELSE p3
      p5 == IF filters.mailboxId # Absent
              THEN Append2(p4, <<"m","a","i","l","b","o","x","I","d">>, ToStr(filters.mailboxId))
            ELSE p4
      p6 == IF Len(filters.updatedSince) > 0
              THEN Append2(p5, <<"u","p","d","a","t","e","d","S","i","n","c","e">>, SinceParam(filters.updatedSince))
            ELSE p5
      p7 == IF Len(filters.createdSince) > 0
              THEN Append2(p6, <<"c","r","e","a","t","e","d","S","i","n","c","e">>, SinceParam(filters.createdSince))
            ELSE p6
      p8 == IF filters.page # 0 THEN Append2(p7, <<"p","a","g","e">>, ToStr(filters.page)) ELSE p7
  IN IF filters.pageSize # 0 THEN Append2(p8, <<"p","e","r","_","p","a","g","e">>, ToStr(filters.pageSize)) ELSE p8

\* searchConversations(filters)
searchConversations(filters) ==
  Request(<<"/","c","o","n","v","e","r","s","a","t","i","o","n","s","?">> \o ParamsToString(SearchParams(filters)), "GET", Undefined)

\* The assignee selectors of SearchFilters
AssigneeChoices ==
  [kind : {"undefined", "unassigned", "any"}, id : {0}]
  \cup [kind : {"id"}, id : {0, 7, 12}]

\* The status filters of SearchFilters
StatusChoices == {Undefined, "active", "pending", "closed", "spam", "all"}

\* The filters searchConversations is called with: every assignee and
\* status with and without a text, and every combination of the other
\* filters with two of the status filters
SearchFilterChoices ==
  [textSearch : {<<>>, <<" ","l","o","g","i","n"," ","e","r","r","o","r"," ">>}, assignee : AssigneeChoices,
   status : StatusChoices, state : {Undefined}, mailboxId : {Absent},
   updatedSince : {<<>>}, createdSince : {<<>>}, page : {0}, pageSize : {0}]
  \cup
  [textSearch : {<<>>}, assignee : {[kind |-> "id", id |-> 0]},
   status : {Undefined, "all"}, state : {Undefined, "published"},
   mailboxId : {Absent, 0}, updatedSince : {<<>>, <<"7","d">>, <<"2","0","2","4","-","0","1","-","1","5">>},
   createdSince : {<<>>, <<"2","4","h">>}, page : {0, 2}, pageSize : {0, 50}]

\* The search calls a caller can make
SearchCalls == [name : {"searchConversations"}, filters : SearchFilterChoices]

\* The read calls a caller can make, with their arguments
ReadCalls ==
  [name : {"getConversation"}, ticketId : TicketIds, includeThreads : BOOLEAN]

\* The calls that post a thread, with their arguments
ThreadCalls ==
  [name : {"addThread"}, ticketId : TicketIds, type : {"note", "message"},
   text : TextSamples, userId : {0, 1}, state : {Undefined, "draft", "published"}]
  \cup [name : {"createDraftReply"}, ticketId : TicketIds, text : TextSamples,
        userId : {0, 1}]

\* The request a call issues
RequestOf(c) ==
  IF c.name = "getConversation" THEN getConversation(c.ticketId, c.includeThreads)
  ELSE IF c.name = "addThread"
    THEN addThread(c.ticketId, c.type, c.text, c.userId, c.state)
  ELSE IF c.name = "updateConversation"
    THEN updateConversation(c.ticketId, c.updates)
  ELSE IF c.name = "searchConversations"
    THEN searchConversations(c.filters)
  ELSE createDraftReply(c.ticketId, c.text, c.userId)

\* ------------------------------------------------------------------------
\* State
\* ------------------------------------------------------------------------

VARIABLES
  retryOptions,  \* this.retryOptions
  call,          \* the call in progress (its name and arguments)
  req,           \* the arguments request was called with
  pc,            \* idle / fetching / body / sleeping / settled
  retryCount,    \* retryWithBackoff's retryCount
  timerArmed,    \* the attempt's setTimeout is pending
  status,        \* status of the latest attempt's response, 0 if none
  fetchCalls,    \* number of fetch calls made so far
  sent,          \* what the latest fetch call sent
  sleeps,        \* number of backoff sleeps started so far
  delay,         \* delay of the latest backoff sleep
  jitter,        \* Math.random() * 1000 of the latest backoff sleep
  lastError,     \* message of the error the latest attempt threw
  failures,      \* number of attempts that threw
  allRetryable,  \* every error thrown so far satisfied isRetryable
  outcome,       \* what request handed to its caller
  applied        \* the attempts whose request the backend carried out

clientVars == <<retryOptions, call, req, pc, retryCount, timerArmed, status,
                fetchCalls, sent, sleeps, delay, jitter, lastError, failures,
                allRetryable, outcome, applied>>

\* The content normalizer applied to a string, once and then again
VARIABLES
  stripIn,       \* the string handed to stripHtml
  stripOut,      \* the result of the latest stripHtml call
  stripPrev,     \* the result of the call before it
  stripPasses    \* number of stripHtml calls made

stripVars == <<stripIn, stripOut, stripPrev, stripPasses>>

\* The reply renderer at work on a text
VARIABLES
  mdText,        \* the text handed to markdownToHtml
  mdPc,          \* start / loop / done
  mdLines,       \* lines: the text after the inline replacements, split
  mdLoop,        \* the locals of the line loop
  mdOut          \* the returned HTML

mdVars == <<mdText, mdPc, mdLines, mdLoop, mdOut>>

\* The ticket-input parser applied to an input
VARIABLES
  parseIn,       \* the input handed to parseTicketInput
  parseOut       \* what parseTicketInput returned or threw

parseVars == <<parseIn, parseOut>>

\* The tool handler of the server at work on one tool call
VARIABLES
  tool,          \* request.params: the tool's name and arguments
  toolPc,        \* idle / awaiting / done / thrown
  toolResult,    \* the text of the content the handler returned, or the
                 \* message of the error it threw
  params         \* request.params as received: the name, and whether
                 \* arguments came with it

toolVars == <<tool, toolPc, toolResult, params>>

\* The ticket analyzer applied to a conversation
VARIABLES
  conversation,  \* the conversation handed to analyzeConversation
  analysis,      \* the TicketAnalysis it returned
  analyzed       \* the earlier calls on this analyzer: argument and result

analyzerVars == <<conversation, analysis, analyzed>>

\* One client with several request calls in flight
VARIABLES
  flights,       \* each call's position and the locals of its activations
  client         \* the fields of the client: baseUrl, apiKey, retryOptions

flightVars == <<flights, client>>

vars == <<clientVars, stripVars, mdVars, parseVars, toolVars, analyzerVars, flightVars>>

NoCall == [name |-> "none"]

NoRequest == [path |-> <<>>, method |-> "none", body |-> Undefined]

Pending == [kind |-> "pending", attempt |-> 0, error |-> <<>>]

\* The client after construction with these options, no call made yet
ClientInit(opts) ==
  /\ retryOptions = opts
  /\ call = NoCall
  /\ req = NoRequest
  /\ pc = "idle"
  /\ retryCount = 0
  /\ timerArmed = FALSE
  /\ status = 0
  /\ fetchCalls = 0
  /\ sent = NoRequest
  /\ sleeps = 0
  /\ delay = 0
  /\ jitter = 0
  /\ lastError = <<>>
  /\ failures = 0
  /\ allRetryable = TRUE
  /\ outcome = Pending
  /\ applied = {}

\* ------------------------------------------------------------------------
\* request / retryWithBackoff
\* ------------------------------------------------------------------------

\* GivesUp with the retry budget off by one
GivesUpOffByOne(message, count, opts) ==
  ~isRetryable(message) \/ count > opts.maxRetries

\* The condition under which retryWithBackoff rethrows instead of retrying
GivesUp(message, count, opts) == ~isRetryable(message) \/ count >= opts.maxRetries

\* The error the catch block of request's closure throws for a caught one
Rethrown(name, message, opts) ==
  IF name = "AbortError" THEN TimeoutError(opts.timeout) ELSE message

\* The closure passed to retryWithBackoff runs up to its await fetch: the
\* timeout timer is armed and the request is sent
IssueAttempt(r) ==
  /\ timerArmed' = TRUE
  /\ fetchCalls' = fetchCalls + 1
  /\ sent' = r
  /\ status' = 0
  /\ lastError' = <<>>
  /\ pc' = "fetching"
  /\ UNCHANGED applied

\* AttemptFails that wraps the error it gives up on in a new one
AttemptFailsWrapped(message) ==
  /\ timerArmed' = FALSE
  /\ lastError' = message
  /\ failures' = failures + 1
  /\ allRetryable' = (allRetryable /\ isRetryable(message))
  /\ IF GivesUp(message, retryCount, retryOptions)
     THEN /\ pc' = "settled"
          /\ outcome' = [kind |-> "rejected", attempt |-> fetchCalls,
                         error |-> <<"R","e","q","u","e","s","t"," ","f","a","i","l","e","d",":"," ">> \o message]
          /\ UNCHANGED <<sleeps, delay, jitter>>
     ELSE /\ \E rnd \in JitterSamples :
               /\ jitter' = rnd
               /\ delay' = BackoffDelay(retryOptions, retryCount, rnd)
          /\ sleeps' = sleeps + 1
          /\ pc' = "sleeping"
          /\ UNCHANGED outcome
  /\ UNCHANGED <<retryOptions, call, req, retryCount, status, fetchCalls, sent, applied>>
  /\ UNCHANGED <<stripVars, mdVars, parseVars, toolVars, analyzerVars, flightVars>>

\* The attempt threw an error with this message: the catch block of
\* retryWithBackoff either rethrows it to the caller or starts a sleep
AttemptFails(message) ==
  /\ timerArmed' = FALSE
  /\ lastError' = message
  /\ failures' = failures + 1
  /\ allRetryable' = (allRetryable /\ isRetryable(message))
  /\ IF GivesUp(message, retryCount, retryOptions)
     THEN /\ pc' = "settled"
          /\ outcome' = [kind |-> "rejected", attempt |-> fetchCalls, error |-> message]
          /\ UNCHANGED <<sleeps, delay, jitter>>
     ELSE /\ \E rnd \in JitterSamples :
               /\ jitter' = rnd
               /\ delay' = BackoffDelay(retryOptions, retryCount, rnd)
          /\ sleeps' = sleeps + 1
          /\ pc' = "sleeping"
          /\ UNCHANGED outcome
  /\ UNCHANGED <<retryOptions, call, req, retryCount, status, fetchCalls, sent, applied>>
  /\ UNCHANGED <<stripVars, mdVars, parseVars, toolVars, analyzerVars, flightVars>>

\* A caller invokes an operation; request starts retryWithBackoff with
\* retryCount 0 and the first attempt is issued
StartCall(calls) ==
  /\ pc = "idle"
  /\ \E c \in calls :
       /\ call' = c
       /\ req' = RequestOf(c)
  /\ retryCount' = 0
  /\ IssueAttempt(req')
  /\ UNCHANGED <<retryOptions, sleeps, delay, jitter, failures, allRetryable, outcome>>
  /\ UNCHANGED <<stripVars, mdVars, parseVars, toolVars, analyzerVars, flightVars>>

\* A caller invokes a read operation
StartReadCall == StartCall(ReadCalls)

\* A caller invokes an operation that posts a thread
StartThreadCall == StartCall(ThreadCalls)

\* A caller invokes searchConversations
StartSearchCall == StartCall(SearchCalls)

\* The backend carries out the POST of the pending attempt; what the
\* client is told about the attempt comes after, or never
BackendApplies ==
  /\ pc = "fetching"
  /\ sent.method = "POST"
  /\ fetchCalls \notin applied
  /\ applied' = applied \cup {fetchCalls}
  /\ UNCHANGED <<retryOptions, call, req, pc, retryCount, timerArmed, status, fetchCalls,
                 sent, sleeps, delay, jitter, lastError, failures, allRetryable, outcome>>
  /\ UNCHANGED <<stripVars, mdVars, parseVars, toolVars, analyzerVars, flightVars>>

\* fetch rejects with a transport error
FetchRejects ==
  /\ pc = "fetching"
  /\ \E m \in TransportErrors : AttemptFails(Rethrown("Error", m, retryOptions))

\* The timeout timer fires: controller.abort() makes fetch reject with an
\* AbortError
TimerFires ==
  /\ pc = "fetching"
  /\ timerArmed
  /\ AttemptFails(Rethrown("AbortError", <<"T","h","i","s"," ","o","p","e","r","a","t","i","o","n"," ","w","a","s"," ","a","b","o","r","t","e","d">>, retryOptions))

\* fetch resolves and the timeout timer is left pending
FetchResolvesTimerKept ==
  /\ pc = "fetching"
  /\ \E st \in Statuses : status' = st
  /\ pc' = "body"
  /\ UNCHANGED <<retryOptions, call, req, retryCount, timerArmed, fetchCalls, sent, sleeps, applied,
                 delay, jitter, lastError, failures, allRetryable, outcome>>
  /\ UNCHANGED <<stripVars, mdVars, parseVars, toolVars, analyzerVars, flightVars>>

\* fetch resolves with a response: the timer is cleared and the body is
\* read next (text() of an error response, json() of an ok one)
FetchResolves ==
  /\ pc = "fetching"
  /\ \E st \in Statuses : status' = st
  /\ timerArmed' = FALSE
  /\ pc' = "body"
  /\ UNCHANGED <<retryOptions, call, req, retryCount, fetchCalls, sent, sleeps, applied,
                 delay, jitter, lastError, failures, allRetryable, outcome>>
  /\ UNCHANGED <<stripVars, mdVars, parseVars, toolVars, analyzerVars, flightVars>>

\* response.text() of a response that is not ok resolves: the error for
\* its status is thrown
ErrorBodyRead ==
  /\ pc = "body"
  /\ ~ResponseOk(status)
  /\ \E errorText \in ErrorTexts :
       AttemptFails(Rethrown("Error", StatusError(status, errorText), retryOptions))

\* response.json() of an ok response resolves: request returns it
JsonRead ==
  /\ pc = "body"
  /\ ResponseOk(status)
  /\ pc' = "settled"
  /\ outcome' = [kind |-> "resolved", attempt |-> fetchCalls, error |-> <<>>]
  /\ UNCHANGED <<retryOptions, call, req, retryCount, timerArmed, status, fetchCalls, applied,
                 sent, sleeps, delay, jitter, lastError, failures, allRetryable>>
  /\ UNCHANGED <<stripVars, mdVars, parseVars, toolVars, analyzerVars, flightVars>>

\* response.json() of an ok response rejects (malformed body)
JsonFails ==
  /\ pc = "body"
  /\ ResponseOk(status)
  /\ AttemptFails(InvalidJson)

\* The backoff sleep ends: retryWithBackoff(fn, retryCount + 1) issues the
\* next attempt
SleepEnds ==
  /\ pc = "sleeping"
  /\ retryCount' = retryCount + 1
  /\ IssueAttempt(req)
  /\ UNCHANGED <<retryOptions, call, req, sleeps, delay, jitter, failures,
                 allRetryable, outcome>>
  /\ UNCHANGED <<stripVars, mdVars, parseVars, toolVars, analyzerVars, flightVars>>

\* ------------------------------------------------------------------------
\* Content normalizer: TicketAnalyzer.stripHtml
\* ------------------------------------------------------------------------

\* RemoveTags without the g flag: only the first tag is replaced
RemoveTagsFirstOnly(s) ==
  LET starts == {i \in 1..Len(s) : s[i] = "<" /\ NextChar(s, i + 1, ">") # 0}
  IN IF starts = {} THEN s
     ELSE LET i == First(starts)
              j == NextChar(s, i + 1, ">")
          IN SubSeq(s, 1, i - 1) \o <<" ">> \o SubSeq(s, j + 1, Len(s))

\* s.replace(/<[^>]*>/g, ' '): every tag becomes one space
RECURSIVE RemoveTags(_)
RemoveTags(s) ==
  LET starts == {i \in 1..Len(s) : s[i] = "<" /\ NextChar(s, i + 1, ">") # 0}
  IN IF starts = {} THEN s
     ELSE LET i == First(starts)
              j == NextChar(s, i + 1, ">")
          IN SubSeq(s, 1, i - 1) \o <<" ">> \o RemoveTags(SubSeq(s, j + 1, Len(s)))

\* s.replace(/\s+/g, ' '): every run of whitespace becomes one space
RECURSIVE CollapseSpace(_)
CollapseSpace(s) ==
  LET starts == {i \in 1..Len(s) : IsSpace(s[i])}
  IN IF starts = {} THEN s
     ELSE LET i == First(starts)
              rest == SubSeq(s, i, Len(s))
          IN SubSeq(s, 1, i - 1) \o <<" ">>
               \o CollapseSpace(SubSeq(rest, SpaceRun(rest) + 1, Len(rest)))

\* The entity replacements with the ampersand decoded first instead of last
DecodeEntitiesAmpFirst(s) ==
  LET e0 == ReplaceAll(s, <<"&","a","m","p",";">>, <<"&">>)
      e1 == ReplaceAll(e0, <<"&","n","b","s","p",";">>, <<" ">>)
      e2 == ReplaceAll(e1, <<"&","l","t",";">>, <<"<">>)
      e3 == ReplaceAll(e2, <<"&","g","t",";">>, <<">">>)
      e4 == ReplaceAll(e3, <<"&","q","u","o","t",";">>, <<"\"">>)
  IN ReplaceAll(e4, <<"&","#","3","9",";">>, <<"'">>)

\* The entity replacements of stripHtml, in the order the code applies them
DecodeEntities(s) ==
  LET e1 == ReplaceAll(s, <<"&","n","b","s","p",";">>, <<" ">>)
      e2 == ReplaceAll(e1, <<"&","l","t",";">>, <<"<">>)
      e3 == ReplaceAll(e2, <<"&","g","t",";">>, <<">">>)
      e4 == ReplaceAll(e3, <<"&","q","u","o","t",";">>, <<"\"">>)
      e5 == ReplaceAll(e4, <<"&","#","3","9",";">>, <<"'">>)
  IN ReplaceAll(e5, <<"&","a","m","p",";">>, <<"&">>)

\* TicketAnalyzer.stripHtml (a null, undefined or empty html is <<>>)
stripHtml(html) ==
  IF Len(html) = 0 THEN <<>>
  ELSE Trim(CollapseSpace(DecodeEntities(RemoveTags(html))))

\* The pieces stripHtml's inputs are put together from
StripTokens ==
  {<<"<">>, <<">">>, <<"<","b",">">>, <<"a">>, <<" ">>, <<"&">>,
   <<"&","l","t",";">>, <<"&","g","t",";">>, <<"&","a","m","p",";">>, <<"&","n","b","s","p",";">>, <<"a","m","p",";">>, <<"l","t",";">>}

\* All concatenations of n tokens
RECURSIVE TokenStrings(_, _)
TokenStrings(tokens, n) ==
  IF n = 0 THEN {<<>>}
  ELSE {t \o r : t \in tokens, r \in TokenStrings(tokens, n - 1)}

StripInputs == UNION {TokenStrings(StripTokens, n) : n \in 0..MaxStripTokens}

StripIdle ==
  /\ stripIn = <<>>
  /\ stripOut = <<>>
  /\ stripPrev = <<>>
  /\ stripPasses = 0

\* stripHtml is called on the input, then on its own result
StripCall ==
  /\ stripPasses < 2
  /\ stripOut' = stripHtml(IF stripPasses = 0 THEN stripIn ELSE stripOut)
  /\ stripPrev' = stripOut
  /\ stripPasses' = stripPasses + 1
  /\ UNCHANGED <<stripIn, clientVars, mdVars, parseVars, toolVars, analyzerVars, flightVars>>

\* ------------------------------------------------------------------------
\* Reply renderer at work: markdownToHtml step by step
\* ------------------------------------------------------------------------

\* The lines markdownToHtml's inputs are put together from
MdLineSamples ==
  {<<>>, <<"t","e","x","t">>, <<"-"," ","i","t","e","m">>, <<"*"," ","i","t","e","m">>, <<"1","."," ","o","n","e">>,
   <<"*","*","b","o","l","d","*","*"," ","a","n","d"," ",Backtick,"c","o","d","e",Backtick>>, <<"<","s","c","r","i","p","t",">","a","l","e","r","t","(","1",")","<","/","s","c","r","i","p","t",">">>}

\* All sequences of n lines
RECURSIVE LineSeqs(_, _)
LineSeqs(lines, n) ==
  IF n = 0 THEN {<<>>}
  ELSE {<<l>> \o r : l \in lines, r \in LineSeqs(lines, n - 1)}

MdInputs ==
  {Join(ls, <<"\n">>) : ls \in UNION {LineSeqs(MdLineSamples, n) : n \in 1..MaxMdLines}}

\* The lines of the longer inputs: lists with blank lines and text between
\* their items
MdListSamples == {<<>>, <<"t","e","x","t">>, <<"-"," ","i","t","e","m">>, <<"1","."," ","o","n","e">>}

MdListInputs ==
  {Join(ls, <<"\n">>) : ls \in LineSeqs(MdListSamples, MaxMdLines + 1)}

MdIdle ==
  /\ mdText = <<>>
  /\ mdPc = "idle"
  /\ mdLines = <<>>
  /\ mdLoop = LoopInit
  /\ mdOut = <<>>

\* markdownToHtml up to the loop: inline replacements and split
MdStart ==
  /\ mdPc = "start"
  /\ mdLines' = SplitLines(InlineMarkdown(mdText))
  /\ mdLoop' = LoopInit
  /\ mdPc' = "loop"
  /\ UNCHANGED <<mdText, mdOut, clientVars, stripVars, parseVars, toolVars, analyzerVars, flightVars>>

\* One iteration of the line loop
MdStep ==
  /\ mdPc = "loop"
  /\ mdLoop.i <= Len(mdLines)
  /\ mdLoop' = LoopStep(mdLines, mdLoop)
  /\ UNCHANGED <<mdText, mdPc, mdLines, mdOut, clientVars, stripVars, parseVars, toolVars, analyzerVars, flightVars>>

\* The loop is over: the remaining list and paragraph are emitted and the
\* joined HTML is returned
MdFinish ==
  /\ mdPc = "loop"
  /\ mdLoop.i > Len(mdLines)
  /\ mdOut' = LoopFinish(mdLoop)
  /\ mdPc' = "done"
  /\ UNCHANGED <<mdText, mdLines, mdLoop, clientVars, stripVars, parseVars, toolVars, analyzerVars, flightVars>>

\* ------------------------------------------------------------------------
\* Ticket input: extractTicketIdFromUrl and parseTicketInput
\* ------------------------------------------------------------------------

\* The capture of (\d+) when the digits start at position i
DigitRunAt(s, i) == SubSeq(s, i, i + DigitRun(SubSeq(s, i, Len(s))) - 1)

\* A digit stands at position i
DigitAt(s, i) == i >= 1 /\ i <= Len(s) /\ IsDigit(s[i])

\* url.match(/conversations?\/(\d+)/): the capture of the leftmost match
extractTicketIdFromUrl(url) ==
  LET word == <<"c","o","n","v","e","r","s","a","t","i","o","n">>
      digitsAfter(i) ==
        IF MatchAt(url, i + Len(word), <<"s","/">>) /\ DigitAt(url, i + Len(word) + 2)
          THEN i + Len(word) + 2
        ELSE IF MatchAt(url, i + Len(word), <<"/">>) /\ DigitAt(url, i + Len(word) + 1)
          THEN i + Len(word) + 1
        ELSE 0
      starts == {i \in 1..Len(url) : MatchAt(url, i, word) /\ digitsAfter(i) # 0}
  IN IF starts = {} THEN Null ELSE DigitRunAt(url, digitsAfter(First(starts)))

\* /^\d+$/.test(s)
IsNumeric(s) == Len(s) > 0 /\ \A i \in 1..Len(s) : IsDigit(s[i])

\* The text match that accepts digits only behind a '#'
TextTicketIdHashRequired(input) ==
  LET starts == {i \in 1..Len(input) : input[i] = "#" /\ DigitAt(input, i + 1)}
  IN IF starts = {} THEN Null ELSE DigitRunAt(input, First(starts) + 1)

\* input.match(/#?(\d+)/): the capture of the leftmost match; the '#' is
\* optional, so a match starts at a '#' with a digit behind it or at a digit
TextTicketId(input) ==
  LET starts == {i \in 1..Len(input) :
                   \/ input[i] = "#" /\ DigitAt(input, i + 1)
                   \/ IsDigit(input[i])}
  IN IF starts = {} THEN Null
     ELSE LET i == First(starts)
          IN DigitRunAt(input, IF input[i] = "#" THEN i + 1 ELSE i)

\* The message of the error parseTicketInput throws
ParseError(input) == <<"C","o","u","l","d"," ","n","o","t"," ","e","x","t","r","a","c","t"," ","t","i","c","k","e","t"," ","I","D"," ","f","r","o","m"," ","i","n","p","u","t",":"," ">> \o input

Returned(value) == [kind |-> "return", value |-> value]

Thrown(message) == [kind |-> "throw", value |-> message]

\* FreeScoutAPI.parseTicketInput
parseTicketInput(input) ==
  LET urlId == IF Includes(input, <<"h","t","t","p">>) THEN extractTicketIdFromUrl(input) ELSE Null
      textId == TextTicketId(input)
  IN IF urlId # Null THEN Returned(urlId)
     ELSE IF IsNumeric(Trim(input)) THEN Returned(Trim(input))
     ELSE IF textId # Null THEN Returned(textId)
     ELSE Thrown(ParseError(input))

\* The pieces parseTicketInput's inputs are put together from
ParseTokens ==
  {<<"#">>, <<"7">>, <<"4","2">>, <<" ">>, <<"t","i","c","k","e","t"," ">>, <<"-">>, <<"h","t","t","p">>,
   <<"h","t","t","p","s",":","/","/","x",".","i","o","/","c","o","n","v","e","r","s","a","t","i","o","n","/">>, <<"c","o","n","v","e","r","s","a","t","i","o","n","s","/">>}

ParseInputs == UNION {TokenStrings(ParseTokens, n) : n \in 0..MaxParseTokens}

NotParsed == [kind |-> "none", value |-> <<>>]

ParseIdle ==
  /\ parseIn = <<>>
  /\ parseOut = NotParsed

\* parseTicketInput is called on the input
ParseCall ==
  /\ parseOut = NotParsed
  /\ parseOut' = parseTicketInput(parseIn)
  /\ UNCHANGED <<parseIn, clientVars, stripVars, mdVars, toolVars, analyzerVars, flightVars>>

\* ------------------------------------------------------------------------
\* Tool handler: the CallToolRequestSchema handler for the ticket tools
\* ------------------------------------------------------------------------

\* DEFAULT_USER_ID when FREESCOUT_DEFAULT_USER_ID is not set
DefaultUserId == 1

\* The tools whose arguments hold a ticket
TicketTools ==
  {"freescout_get_ticket", "freescout_analyze_ticket", "freescout_add_note",
   "freescout_update_ticket", "freescout_create_draft_reply",
   "freescout_get_ticket_context", "freescout_implement_ticket"}

\* args.ticket as callers pass it
ToolTicketInputs ==
  {<<"1","2","3">>, <<" ","1","2","3"," ">>, <<"h","t","t","p","s",":","/","/","x",".","i","o","/","c","o","n","v","e","r","s","a","t","i","o","n","/","1","2","3">>, <<"t","i","c","k","e","t"," ","#","1","2","3">>,
   <<"n","o","t"," ","a"," ","t","i","c","k","e","t">>, <<"#">>}

\* request.params of a ticket tool (an argument that was not passed is
\* Undefined, or 0 for a number; includeThreads is false only when passed
\* as false)
ToolRequests ==
  [name : {"freescout_get_ticket"}, ticket : ToolTicketInputs,
   includeThreads : BOOLEAN]
  \cup [name : {"freescout_analyze_ticket", "freescout_get_ticket_context",
                "freescout_implement_ticket"},
        ticket : ToolTicketInputs]
  \cup [name : {"freescout_add_note"}, ticket : ToolTicketInputs,
        note : {<<"T","e","s","t"," ","n","o","t","e">>}, userId : {0, 2}]
  \cup [name : {"freescout_update_ticket"}, ticket : ToolTicketInputs,
        status : {Undefined, "closed"}, assignTo : {0, 5}]
  \cup [name : {"freescout_create_draft_reply"}, ticket : ToolTicketInputs,
        replyText : {<<"*","*","b","o","l","d","*","*","\n","\n","-"," ","i","t","e","m">>}, userId : {0, 2}]

\* The updates object of freescout_update_ticket
ToolUpdates(args) ==
  IF args.status # Undefined /\ args.assignTo # 0
    THEN [byUser |-> DefaultUserId, status |-> args.status, assignTo |-> args.assignTo]
  ELSE IF args.status # Undefined
    THEN [byUser |-> DefaultUserId, status |-> args.status]
  ELSE IF args.assignTo # 0
    THEN [byUser |-> DefaultUserId, assignTo |-> args.assignTo]
  ELSE [byUser |-> DefaultUserId]

\* args.userId || DEFAULT_USER_ID
ToolUserId(args) == IF args.userId # 0 THEN args.userId ELSE DefaultUserId

\* The client call a ticket tool makes once the ticket is parsed
ToolCall(args, ticketId) ==
  IF args.name = "freescout_get_ticket"
    THEN [name |-> "getConversation", ticketId |-> ticketId,
          includeThreads |-> args.includeThreads]
  ELSE IF args.name = "freescout_add_note"
    THEN [name |-> "addThread", ticketId |-> ticketId, type |-> "note",
          text |-> args.note, userId |-> ToolUserId(args), state |-> Undefined]
  ELSE IF args.name = "freescout_update_ticket"
    THEN [name |-> "updateConversation", ticketId |-> ticketId,
          updates |-> ToolUpdates(args)]
  ELSE IF args.name = "freescout_create_draft_reply"
    THEN [name |-> "createDraftReply", ticketId |-> ticketId,
          text |-> args.replyText, userId |-> ToolUserId(args)]
  ELSE [name |-> "getConversation", ticketId |-> ticketId, includeThreads |-> TRUE]

\* The catch block of the handler with a fixed text in place of the message
ErrorContentGeneric(message) == <<"E","r","r","o","r",":"," ","t","o","o","l"," ","c","a","l","l"," ","f","a","i","l","e","d">>

\* The content text the catch block of the handler returns
ErrorContent(message) == <<"E","r","r","o","r",":"," ">> \o message

\* The content text a tool returns when its call resolved: the texts built
\* from the ticket id are spelled out, the ones built from the fetched
\* conversation or the created thread stand for that data
SuccessContent(args, ticketId) ==
  IF args.name = "freescout_add_note"
    THEN <<"N","o","t","e"," ","a","d","d","e","d"," ","t","o"," ","t","i","c","k","e","t"," ","#">> \o ticketId
  ELSE IF args.name = "freescout_update_ticket"
    THEN <<"T","i","c","k","e","t"," ","#">> \o ticketId \o <<" ","u","p","d","a","t","e","d"," ","s","u","c","c","e","s","s","f","u","l","l","y">>
  ELSE IF args.name = "freescout_create_draft_reply"
    THEN <<"D","r","a","f","t"," ","r","e","p","l","y"," ","c","r","e","a","t","e","d"," ","s","u","c","c","e","s","s","f","u","l","l","y"," ","i","n"," ","F","r","e","e","S","c","o","u","t"," ","t","i","c","k","e","t"," ","#">> \o ticketId
  ELSE IF args.name = "freescout_implement_ticket"
    THEN <<"#"," ","F","r","e","e","S","c","o","u","t"," ","T","i","c","k","e","t"," ","#">> \o ticketId \o <<" ","I","m","p","l","e","m","e","n","t","a","t","i","o","n"," ","P","l","a","n">>
  ELSE <<"{",".",".",".","}">>

\* The message the handler reports when the client call rejected
FailureMessage(args, message) ==
  IF args.name = "freescout_create_draft_reply"
    THEN <<"F","a","i","l","e","d"," ","t","o"," ","c","r","e","a","t","e"," ","d","r","a","f","t"," ","r","e","p","l","y",":"," ">> \o message
  ELSE message

NoTool == [name |-> "none", ticket |-> <<>>]

NoParams == [name |-> "none", hasArguments |-> FALSE]

\* Names no case of the handler's switch matches
UnknownTools == {"freescout_delete_ticket"}

\* request.params as the transport hands it to the handler
ToolParams == [name : TicketTools \cup UnknownTools, hasArguments : BOOLEAN]

\* The characters of a tool name, as the template literal puts them in
\* the message
ToolNameChars(name) ==
  IF name = "freescout_delete_ticket" THEN <<"f","r","e","e","s","c","o","u","t","_","d","e","l","e","t","e","_","t","i","c","k","e","t">> ELSE <<>>

\* Message of the error thrown when request.params holds no arguments
ArgumentsMissing == <<"A","r","g","u","m","e","n","t","s"," ","a","r","e"," ","m","i","s","s","i","n","g">>

\* Message of the error the default case of the switch throws
UnknownTool(name) == <<"U","n","k","n","o","w","n"," ","t","o","o","l",":"," ">> \o ToolNameChars(name)

ToolIdle ==
  /\ tool = NoTool
  /\ toolPc = "idle"
  /\ toolResult = <<>>
  /\ params = NoParams

\* The handler receives a tool call. Without arguments it throws before
\* its try block is entered; a name no case matches throws inside the try
\* block and goes to the catch block. A ticket tool parses args.ticket
\* first: a parse error goes straight to the catch block, otherwise the
\* tool's client call is started and awaited
CallTool ==
  /\ toolPc = "idle"
  /\ pc = "idle"
  /\ \E p \in ToolParams :
       /\ params' = p
       /\ IF ~p.hasArguments
          THEN /\ toolPc' = "thrown"
               /\ toolResult' = ArgumentsMissing
               /\ UNCHANGED <<tool, clientVars>>
          ELSE IF p.name \notin TicketTools
          THEN /\ toolPc' = "done"
               /\ toolResult' = ErrorContent(UnknownTool(p.name))
               /\ UNCHANGED <<tool, clientVars>>
          ELSE \E args \in {a \in ToolRequests : a.name = p.name} :
                 LET parsed == parseTicketInput(args.ticket)
                 IN /\ tool' = args
                    /\ IF parsed.kind = "throw"
                       THEN /\ toolPc' = "done"
                            /\ toolResult' = ErrorContent(parsed.value)
                            /\ UNCHANGED clientVars
                       ELSE /\ toolPc' = "awaiting"
                            /\ UNCHANGED toolResult
                            /\ call' = ToolCall(args, parsed.value)
                            /\ req' = RequestOf(call')
                            /\ retryCount' = 0
                            /\ IssueAttempt(req')
                            /\ UNCHANGED <<retryOptions, sleeps, delay, jitter, failures,
                                           allRetryable, outcome>>
  /\ UNCHANGED <<stripVars, mdVars, parseVars, analyzerVars, flightVars>>

\* The awaited client call settled: the handler returns the tool's content,
\* or the catch block reports the error
ToolReturns ==
  /\ toolPc = "awaiting"
  /\ pc = "settled"
  /\ toolPc' = "done"
  /\ toolResult' = IF outcome.kind = "resolved"
                     THEN SuccessContent(tool, call.ticketId)
                   ELSE ErrorContent(FailureMessage(tool, outcome.error))
  /\ UNCHANGED <<tool, params, clientVars, stripVars, mdVars, parseVars, analyzerVars, flightVars>>

\* ------------------------------------------------------------------------
\* Ticket analyzer: TicketAnalyzer.analyzeConversation
\* ------------------------------------------------------------------------

\* String.prototype.toLowerCase on one character
LowerChar(c) ==
  IF \E i \in 1..Len(UpperLetters) : UpperLetters[i] = c
    THEN LowerLetters[CHOOSE i \in 1..Len(UpperLetters) : UpperLetters[i] = c]
  ELSE c

\* String.prototype.toLowerCase
toLowerCase(s) == [i \in 1..Len(s) |-> LowerChar(s[i])]

\* keywords.some((keyword) => text.includes(keyword))
ContainsAny(text, keywords) == \E k \in 1..Len(keywords) : Includes(text, keywords[k])

\* threads.filter((t) => t.type === type)
ThreadsOfType(threads, type) ==
  LET IsOfType(t) == t.type = type IN SelectSeq(threads, IsOfType)

\* The bodies of the threads, normalized
RECURSIVE StrippedBodies(_)
StrippedBodies(threads) ==
  IF Len(threads) = 0 THEN <<>>
  ELSE <<stripHtml(threads[1].body)>> \o StrippedBodies(Tail(threads))

\* Follow-up messages longer than this are added to the description
SubstantialLength == 50

\* TicketAnalyzer.extractIssueDescription
extractIssueDescription(customerMessages) ==
  IF Len(customerMessages) = 0 THEN <<"N","o"," ","c","u","s","t","o","m","e","r"," ","m","e","s","s","a","g","e","s"," ","f","o","u","n","d">>
  ELSE LET description == stripHtml(customerMessages[1].body)
           IsSubstantial(text) == Len(text) > SubstantialLength
           followUps == SelectSeq(StrippedBodies(Tail(customerMessages)), IsSubstantial)
           additionalContext == Join(followUps, <<"\n","\n","A","d","d","i","t","i","o","n","a","l"," ","c","o","n","t","e","x","t",":","\n">>)
       IN IF Len(additionalContext) > 0
            THEN description \o <<"\n","\n">> \o additionalContext
          ELSE description

testKeywords ==
  <<<<"t","e","s","t","e","d">>, <<"r","e","p","r","o","d","u","c","e","d">>, <<"c","o","n","f","i","r","m","e","d">>, <<"v","e","r","i","f","i","e","d">>, <<"r","e","p","l","i","c","a","t","e","d">>,
    <<"a","b","l","e"," ","t","o"," ","r","e","p","r","o","d","u","c","e">>, <<"c","a","n"," ","r","e","p","r","o","d","u","c","e">>, <<"s","e","e","i","n","g"," ","t","h","e"," ","s","a","m","e">>>>

\* TicketAnalyzer.checkTestedByTeam
checkTestedByTeam(teamNotes) ==
  \E k \in 1..Len(teamNotes) :
    ContainsAny(toLowerCase(stripHtml(teamNotes[k].body)), testKeywords)

reproducibleKeywords ==
  <<<<"s","t","e","p","s"," ","t","o"," ","r","e","p","r","o","d","u","c","e">>, <<"h","o","w"," ","t","o"," ","r","e","p","r","o","d","u","c","e">>, <<"r","e","p","r","o","d","u","c","t","i","o","n"," ","s","t","e","p","s">>,
    <<"a","l","w","a","y","s"," ","h","a","p","p","e","n","s">>, <<"c","o","n","s","i","s","t","e","n","t","l","y">>, <<"e","v","e","r","y"," ","t","i","m","e">>>>

\* TicketAnalyzer.checkReproducible
checkReproducible(threads) ==
  \E k \in 1..Len(threads) :
    ContainsAny(toLowerCase(stripHtml(threads[k].body)), reproducibleKeywords)

thirdPartyIndicators ==
  <<<<"e","l","e","m","e","n","t","o","r">>, <<"t","h","i","r","d","-","p","a","r","t","y"," ","p","l","u","g","i","n">>, <<"a","n","o","t","h","e","r"," ","p","l","u","g","i","n">>, <<"t","h","e","m","e"," ","c","o","n","f","l","i","c","t">>,
    <<"h","o","s","t","i","n","g"," ","l","i","m","i","t","a","t","i","o","n">>, <<"s","e","r","v","e","r"," ","c","o","n","f","i","g","u","r","a","t","i","o","n">>, <<"p","h","p"," ","v","e","r","s","i","o","n">>,
    <<"w","o","r","d","p","r","e","s","s"," ","c","o","r","e">>>>

featureKeywords ==
  <<<<"w","o","u","l","d"," ","b","e"," ","n","i","c","e">>, <<"f","e","a","t","u","r","e"," ","r","e","q","u","e","s","t">>, <<"e","n","h","a","n","c","e","m","e","n","t">>, <<"c","o","u","l","d"," ","y","o","u"," ","a","d","d">>,
    <<"i","s"," ","i","t"," ","p","o","s","s","i","b","l","e"," ","t","o">>, <<"w","o","u","l","d"," ","l","i","k","e"," ","t","o">>>>

configKeywords ==
  <<<<"s","e","t","t","i","n","g","s">>, <<"c","o","n","f","i","g","u","r","a","t","i","o","n">>, <<"n","o","t"," ","c","o","n","f","i","g","u","r","e","d">>, <<"s","e","t","u","p">>, <<"i","n","s","t","a","l","l","a","t","i","o","n">>>>

\* The rootCause that looks at the feature request before the others
RootCauseFeatureFirst(isThirdParty, isConfigIssue, isFeatureRequest) ==
  IF isFeatureRequest THEN "Feature request, not a bug"
  ELSE IF isThirdParty THEN "Third-party plugin or system limitation"
  ELSE IF isConfigIssue THEN "Configuration or setup issue"
  ELSE Undefined

\* The rootCause of analyzeIssueType
RootCause(isThirdParty, isConfigIssue, isFeatureRequest) ==
  IF isThirdParty THEN "Third-party plugin or system limitation"
  ELSE IF isConfigIssue THEN "Configuration or setup issue"
  ELSE IF isFeatureRequest THEN "Feature request, not a bug"
  ELSE Undefined

\* TicketAnalyzer.analyzeIssueType (the description argument is not read)
analyzeIssueType(description, threads) ==
  LET fullText == toLowerCase(Join(StrippedBodies(threads), <<"\n">>))
      isThirdParty == ContainsAny(fullText, thirdPartyIndicators)
      isFeatureRequest == ContainsAny(fullText, featureKeywords)
      isConfigIssue == ContainsAny(fullText, configKeywords)
  IN [isBug |-> ~isFeatureRequest /\ ~isConfigIssue /\ ~isThirdParty,
      isThirdParty |-> isThirdParty,
      rootCause |-> RootCause(isThirdParty, isConfigIssue, isFeatureRequest),
      suggestedSolution |-> Undefined]

\* The notes of the team with the replies of the team counted in
TeamNotesWithReplies(threads) ==
  LET IsTeam(t) == t.type \in {"note", "message"} IN SelectSeq(threads, IsTeam)

\* threads.filter((t) => t.type === 'note')
TeamNotes(threads) == ThreadsOfType(threads, "note")

\* \w
IsWordChar(c) == IsLetter(c) \/ IsDigit(c) \/ c = "_"

\* The greatest element of a non-empty set of integers
Last(S) == CHOOSE x \in S : \A y \in S : y <= x

\* The position behind the whitespace that starts at position i
SkipSpace(s, i) == i + SpaceRun(SubSeq(s, i, Len(s)))

\* The character c stands at position i
CharAt(s, i, c) == i >= 1 /\ i <= Len(s) /\ s[i] = c

\* body.matchAll(/<tag[^>]*>.*?<\/tag>/gs): the matches, left to right
RECURSIVE BlockMatches(_, _, _)
BlockMatches(body, open, close) ==
  LET closeOf(i) ==
        LET j == NextChar(body, i + Len(open), ">")
        IN IF j = 0 THEN 0 ELSE IndexOf(body, j + 1, close)
      starts == {i \in 1..Len(body) : MatchAt(body, i, open) /\ closeOf(i) # 0}
  IN IF starts = {} THEN <<>>
     ELSE LET e == closeOf(First(starts)) + Len(close) - 1
          IN <<SubSeq(body, First(starts), e)>>
               \o BlockMatches(SubSeq(body, e + 1, Len(body)), open, close)

\* matches.map((match) => this.stripHtml(match[0]))
StrippedMatches(matches) == [k \in 1..Len(matches) |-> stripHtml(matches[k])]

\* Inline code longer than this is kept as a snippet
SubstantialCode == 20

\* TicketAnalyzer.looksLikeCode: some code indicator matches the line
looksLikeCode(line) ==
  LET n == Len(line)
      start == TrimStart(line)
      WordThenSpaceWord(word) ==
        \E i \in 1..n :
          /\ MatchAt(line, i, word)
          /\ SkipSpace(line, i + Len(word)) > i + Len(word)
          /\ SkipSpace(line, i + Len(word)) <= n
          /\ IsWordChar(line[SkipSpace(line, i + Len(word))])
      WordThenParen(word) ==
        \E i \in 1..n :
          MatchAt(line, i, word) /\ CharAt(line, SkipSpace(line, i + Len(word)), "(")
      WordThenSpace(word) ==
        \E i \in 1..n :
          /\ MatchAt(line, i, word)
          /\ i + Len(word) <= n
          /\ IsSpace(line[i + Len(word)])
      Variable == \E i \in 1..(n - 1) : line[i] = "$" /\ IsWordChar(line[i + 1])
      Call ==
        \E i \in 1..n :
          /\ IsWordChar(line[i])
          /\ CharAt(line, SkipSpace(line, i + 1), "(")
          /\ CharAt(line, SkipSpace(line, SkipSpace(line, i + 1) + 1), ")")
      Assignment ==
        \E i \in 1..n :
          /\ IsWordChar(line[i])
          /\ CharAt(line, SkipSpace(line, i + 1), "=")
          /\ \E k \in (SkipSpace(line, i + 1) + 1)..n :
               /\ ~IsLineTerminator(line[k])
               /\ \A m \in (SkipSpace(line, i + 1) + 1)..(k - 1) : IsSpace(line[m])
  IN \/ MatchAt(start, 1, <<"/","/">>)
     \/ MatchAt(start, 1, <<"#">>)
     \/ MatchAt(start, 1, <<"*">>)
     \/ WordThenSpaceWord(<<"f","u","n","c","t","i","o","n">>)
     \/ WordThenSpaceWord(<<"c","l","a","s","s">>)
     \/ Variable
     \/ Call
     \/ Assignment
     \/ WordThenParen(<<"i","f">>)
     \/ WordThenParen(<<"f","o","r">>)
     \/ WordThenParen(<<"w","h","i","l","e">>)
     \/ WordThenSpace(<<"r","e","t","u","r","n">>)
     \/ WordThenSpace(<<"i","m","p","o","r","t">>)
     \/ WordThenParen(<<"r","e","q","u","i","r","e">>)
     \/ WordThenParen(<<"i","n","c","l","u","d","e">>)

\* The snippets extractCodeSnippets pushes for one thread: the pre blocks,
\* the inline code longer than 20 characters, the lines that look like code
ThreadSnippets(thread) ==
  LET blocks == StrippedMatches(BlockMatches(thread.body, <<"<","p","r","e">>, <<"<","/","p","r","e",">">>))
      IsSubstantial(code) == Len(code) > SubstantialCode
      inline == SelectSeq(StrippedMatches(BlockMatches(thread.body, <<"<","c","o","d","e">>, <<"<","/","c","o","d","e",">">>)),
                          IsSubstantial)
      lines == SelectSeq(SplitLines(stripHtml(thread.body)), looksLikeCode)
  IN blocks \o inline \o [k \in 1..Len(lines) |-> Trim(lines[k])]

\* The snippets array before the duplicates are removed
RECURSIVE PushedSnippets(_)
PushedSnippets(threads) ==
  IF Len(threads) = 0 THEN <<>>
  ELSE ThreadSnippets(threads[1]) \o PushedSnippets(Tail(threads))

\* The array spread without the Set: duplicates are kept
SetSpreadKeepingDuplicates(list) == list

\* [...new Set(list)]: the first occurrence of every element, in order
RECURSIVE SetSpread(_)
SetSpread(list) ==
  IF Len(list) = 0 THEN <<>>
  ELSE LET rest == SetSpread(SubSeq(list, 1, Len(list) - 1))
           last == list[Len(list)]
       IN IF \E k \in 1..Len(rest) : rest[k] = last THEN rest ELSE Append(rest, last)

\* TicketAnalyzer.extractCodeSnippets
extractCodeSnippets(threads) == SetSpread(PushedSnippets(threads))

\* errorPatterns: the keyword, whether a colon may separate it from the
\* message, and the word that must follow the keyword
errorPatterns ==
  <<[keyword |-> <<"e","r","r","o","r">>, colon |-> TRUE, then |-> <<>>],
    [keyword |-> <<"e","x","c","e","p","t","i","o","n">>, colon |-> TRUE, then |-> <<>>],
    [keyword |-> <<"w","a","r","n","i","n","g">>, colon |-> TRUE, then |-> <<>>],
    [keyword |-> <<"f","a","t","a","l">>, colon |-> TRUE, then |-> <<>>],
    [keyword |-> <<"f","a","i","l","e","d">>, colon |-> TRUE, then |-> <<>>],
    [keyword |-> <<"c","a","n","n","o","t">>, colon |-> FALSE, then |-> <<>>],
    [keyword |-> <<"u","n","a","b","l","e">>, colon |-> FALSE, then |-> <<"t","o">>],
    [keyword |-> <<"u","n","d","e","f","i","n","e","d">>, colon |-> FALSE, then |-> <<>>],
    [keyword |-> <<"n","u","l","l">>, colon |-> FALSE, then |-> <<>>]>>

\* The end of the match of an error pattern that starts at position i of
\* the text, 0 if there is none: keyword, separators, then (.+) up to the
\* end of the line (lower is the text in lower case, for the i flag)
PatternMatchEnd(text, lower, i, pattern) ==
  LET n == Len(text)
      afterKeyword == i + Len(pattern.keyword)
      afterThen == SkipSpace(lower, afterKeyword) + Len(pattern.then)
      j == IF Len(pattern.then) = 0 THEN afterKeyword
           ELSE IF SkipSpace(lower, afterKeyword) > afterKeyword
                   /\ MatchAt(lower, SkipSpace(lower, afterKeyword), pattern.then)
             THEN afterThen
           ELSE 0
      IsSeparator(c) == IsSpace(c) \/ (pattern.colon /\ c = ":")
      messages == {q \in (j + 1)..n :
                     /\ \A m \in j..(q - 1) : IsSeparator(text[m])
                     /\ ~IsLineTerminator(text[q])}
  IN IF ~MatchAt(lower, i, pattern.keyword) \/ j = 0 \/ messages = {} THEN 0
     ELSE LET ends == {m \in Last(messages)..n : IsLineTerminator(text[m])}
          IN IF ends = {} THEN n ELSE First(ends) - 1

\* text.matchAll(pattern): the matches, left to right
RECURSIVE PatternMatches(_, _, _, _)
PatternMatches(text, lower, from, pattern) ==
  LET starts == {i \in from..Len(text) : PatternMatchEnd(text, lower, i, pattern) # 0}
  IN IF starts = {} THEN <<>>
     ELSE LET e == PatternMatchEnd(text, lower, First(starts), pattern)
          IN <<SubSeq(text, First(starts), e)>> \o PatternMatches(text, lower, e + 1, pattern)

\* The errors extractErrorMessages pushes for one text and the patterns
\* from the k-th on: the trimmed matches of 11 to 499 characters
RECURSIVE TextErrors(_, _)
TextErrors(text, k) ==
  IF k > Len(errorPatterns) THEN <<>>
  ELSE LET matches == PatternMatches(text, toLowerCase(text), 1, errorPatterns[k])
           trimmed == [m \in 1..Len(matches) |-> Trim(matches[m])]
           IsKept(error) == Len(error) > 10 /\ Len(error) < 500
       IN SelectSeq(trimmed, IsKept) \o TextErrors(text, k + 1)

\* The errors array before the duplicates are removed
RECURSIVE PushedErrors(_)
PushedErrors(threads) ==
  IF Len(threads) = 0 THEN <<>>
  ELSE TextErrors(stripHtml(threads[1].body), 1) \o PushedErrors(Tail(threads))

\* extractErrorMessages with the errors array kept on the analyzer: the
\* errors of the earlier calls are still in it
extractErrorMessagesShared(threads) ==
  LET earlier == {r.analysis.errorMessages : r \in analyzed}
      kept == IF earlier = {} THEN <<>>
              ELSE CHOOSE e \in earlier : \A f \in earlier : Len(f) <= Len(e)
  IN SetSpread(kept \o PushedErrors(threads))

\* TicketAnalyzer.extractErrorMessages
extractErrorMessages(threads) == SetSpread(PushedErrors(threads))

\* TicketAnalyzer.analyzeConversation: the fields computed from the thread
\* types and bodies
analyzeConversation(conv) ==
  LET threads == conv.threads
      customerMessages == ThreadsOfType(threads, "customer")
      issueDescription == extractIssueDescription(customerMessages)
      testedByTeam == checkTestedByTeam(TeamNotes(threads))
      issue == analyzeIssueType(issueDescription, threads)
  IN [ticketId |-> ToStr(conv.id),
      issueDescription |-> issueDescription,
      codeSnippets |-> extractCodeSnippets(threads),
      errorMessages |-> extractErrorMessages(threads),
      isReproducible |-> testedByTeam \/ checkReproducible(threads),
      testedByTeam |-> testedByTeam,
      isBug |-> issue.isBug,
      isThirdPartyIssue |-> issue.isThirdParty,
      rootCause |-> issue.rootCause,
      suggestedSolution |-> issue.suggestedSolution]

\* Thread bodies as FreeScout stores them
Checkout == <<"<","p",">","T","h","e"," ","c","h","e","c","k","o","u","t"," ","p","a","g","e"," ","c","r","a","s","h","e","s"," ","e","v","e","r","y"," ","t","i","m","e"," ","I"," ","c","l","i","c","k"," ","<","b",">","S","a","v","e","<","/","b",">",".","<","/","p",">">>

StillFails == <<"I","t"," ","s","t","i","l","l"," ","f","a","i","l","s"," ","a","f","t","e","r"," ","t","h","e"," ","u","p","d","a","t","e"," ","&","a","m","p",";"," ","t","h","e"," ","l","o","g"," ","s","h","o","w","s"," ","a"," ","f","a","t","a","l"," ","e","r","r","o","r"," ","o","n"," ","l","i","n","e"," ","4","2",".">>

Reproduced == <<"R","e","p","r","o","d","u","c","e","d"," ","o","n"," ","s","t","a","g","i","n","g",","," ","C","o","n","f","i","r","m","e","d",".","<","p","r","e",">","$","t","o","t","a","l"," ","="," ","0",";","<","/","p","r","e",">">>

ThemeConflict == <<"L","o","o","k","s"," ","l","i","k","e"," ","a"," ","t","h","e","m","e"," ","c","o","n","f","l","i","c","t",","," ","c","h","e","c","k"," ","t","h","e"," ","s","e","r","v","e","r"," ","c","o","n","f","i","g","u","r","a","t","i","o","n">>

WouldBeNice == <<"W","o","u","l","d"," ","b","e"," ","n","i","c","e"," ","t","o"," ","h","a","v","e"," ","t","h","i","s"," ","i","n"," ","S","e","t","t","i","n","g","s">>

CouldYouAdd == <<"C","o","u","l","d"," ","y","o","u"," ","a","d","d"," ","<","c","o","d","e",">","e","x","p","o","r","t","_","o","r","d","e","r","s","_","t","o","_","c","s","v","(",")","<","/","c","o","d","e",">","?">>

\* The threads of the conversations: messages of the customer (one with an
\* absent body, which is empty here), notes and replies of the team
Threads ==
  [type : {"customer"},
   body : {<<>>, Checkout, StillFails, ThemeConflict, WouldBeNice, CouldYouAdd}]
  \cup [type : {"note"}, body : {Reproduced, StillFails, ThemeConflict}]
  \cup [type : {"message"}, body : {Reproduced, WouldBeNice, Checkout}]

\* All sequences of n elements of S
RECURSIVE SeqsOfLength(_, _)
SeqsOfLength(S, n) ==
  IF n = 0 THEN {<<>>}
  ELSE {<<x>> \o r : x \in S, r \in SeqsOfLength(S, n - 1)}

\* The conversations analyzeConversation is called with (no _embedded
\* threads is the empty list)
Conversations ==
  [id : {77}, threads : UNION {SeqsOfLength(Threads, n) : n \in 0..MaxThreads}]

NotAnalyzed == [ticketId |-> <<>>]

NoConversation == [id |-> 0, threads |-> <<>>]

AnalyzerIdle ==
  /\ conversation = NoConversation
  /\ analysis = NotAnalyzed
  /\ analyzed = {}

\* analyzeConversation is called on the conversation
AnalyzeCall ==
  /\ analysis = NotAnalyzed
  /\ analysis' = analyzeConversation(conversation)
  /\ UNCHANGED <<conversation, analyzed, clientVars, stripVars, mdVars, parseVars, toolVars, flightVars>>

\* The conversations of the callers that use one analyzer several times
CallConversations == {c \in Conversations : Len(c.threads) <= 1}

\* The caller keeps the result and hands another conversation, or the same
\* one again, to the same analyzer
NextConversation ==
  /\ analysis # NotAnalyzed
  /\ Cardinality(analyzed) < MaxAnalyzerCalls
  /\ analyzed' = analyzed \cup {[conversation |-> conversation, analysis |-> analysis]}
  /\ conversation' \in CallConversations
  /\ analysis' = NotAnalyzed
  /\ UNCHANGED <<clientVars, stripVars, mdVars, parseVars, toolVars, flightVars>>

\* ------------------------------------------------------------------------
\* Several request calls in flight on one client
\* ------------------------------------------------------------------------

\* The calls that can be in flight at once
CallIds == 1..MaxCalls

\* The fields of the client the constructor sets
Instance(opts) ==
  [baseUrl |-> <<"h","t","t","p","s",":","/","/","s","u","p","p","o","r","t",".","e","x","a","m","p","l","e",".","c","o","m">>, apiKey |-> <<"t","e","s","t","-","a","p","i","-","k","e","y">>,
   retryOptions |-> opts]

\* The options of the client the concurrent calls are made on
FlightOptions == [maxRetries |-> 1, initialDelay |-> 0, maxDelay |-> 0, timeout |-> 250]

\* What the backend does to the attempts of the concurrent calls
FlightTransportErrors == {<<"E","C","O","N","N","R","E","S","E","T">>}
FlightStatuses == {200, 404, 503}

\* A call that was not made yet. A call in flight holds the locals of its
\* own activations: the retryCount parameter of retryWithBackoff, and the
\* controller and timeoutId of the pending attempt (timer is the number of
\* the attempt whose controller the pending timer aborts, 0 when no timer
\* is pending)
NoFlight ==
  [pc |-> "idle", retryCount |-> 0, attempts |-> 0, timer |-> 0, status |-> 0,
   outcome |-> Pending]

FlightsIdle ==
  /\ flights = [c \in CallIds |-> NoFlight]
  /\ client = Instance(FlightOptions)

\* The call after its pending attempt threw an error with this message
FlightAfterFailure(f, message) ==
  IF GivesUp(message, f.retryCount, client.retryOptions)
  THEN [f EXCEPT !.pc = "settled", !.timer = 0,
                 !.outcome = [kind |-> "rejected", attempt |-> f.attempts, error |-> message]]
  ELSE [f EXCEPT !.pc = "sleeping", !.timer = 0]

\* The attempt of call c threw: its own catch block of retryWithBackoff
\* rethrows or starts its own sleep
FlightFails(c, message) ==
  /\ flights' = [flights EXCEPT ![c] = FlightAfterFailure(flights[c], message)]
  /\ UNCHANGED <<client, clientVars, stripVars, mdVars, parseVars, toolVars, analyzerVars>>

\* Call c is made: request starts retryWithBackoff with retryCount 0 and
\* the first attempt creates its controller, arms its timer and fetches
FlightStart(c) ==
  /\ flights[c].pc = "idle"
  /\ flights' = [flights EXCEPT ![c] = [NoFlight EXCEPT !.pc = "fetching", !.attempts = 1,
                                                          !.timer = 1]]
  /\ UNCHANGED <<client, clientVars, stripVars, mdVars, parseVars, toolVars, analyzerVars>>

\* The fetch of call c rejects with a transport error
FlightFetchRejects(c) ==
  /\ flights[c].pc = "fetching"
  /\ \E m \in FlightTransportErrors : FlightFails(c, Rethrown("Error", m, client.retryOptions))

\* A timer whose callback aborts a controller kept on the client: every
\* pending fetch of the client is aborted
FlightTimerFiresShared(c) ==
  /\ flights[c].pc = "fetching"
  /\ flights[c].timer = flights[c].attempts
  /\ flights' = [d \in CallIds |->
                   IF flights[d].pc = "fetching"
                   THEN FlightAfterFailure(flights[d],
                          Rethrown("AbortError", <<"T","h","i","s"," ","o","p","e","r","a","t","i","o","n"," ","w","a","s"," ","a","b","o","r","t","e","d">>, client.retryOptions))
                   ELSE flights[d]]
  /\ UNCHANGED <<client, clientVars, stripVars, mdVars, parseVars, toolVars, analyzerVars>>

\* The timer of the pending attempt of call c fires: its callback aborts
\* the controller of that attempt and the attempt's fetch rejects
FlightTimerFires(c) ==
  /\ flights[c].pc = "fetching"
  /\ flights[c].timer = flights[c].attempts
  /\ FlightFails(c, Rethrown("AbortError", <<"T","h","i","s"," ","o","p","e","r","a","t","i","o","n"," ","w","a","s"," ","a","b","o","r","t","e","d">>, client.retryOptions))

\* The fetch of call c resolves: its timer is cleared, the body is read next
FlightFetchResolves(c) ==
  /\ flights[c].pc = "fetching"
  /\ \E st \in FlightStatuses :
       flights' = [flights EXCEPT ![c] = [@ EXCEPT !.pc = "body", !.timer = 0, !.status = st]]
  /\ UNCHANGED <<client, clientVars, stripVars, mdVars, parseVars, toolVars, analyzerVars>>

\* The body of the response of call c is read: request returns the parsed
\* body of an ok response, throws on a malformed one, and throws the error
\* of the status of a response that is not ok
FlightBodyRead(c) ==
  /\ flights[c].pc = "body"
  /\ IF ResponseOk(flights[c].status)
     THEN \/ /\ flights' = [flights EXCEPT ![c] =
                              [@ EXCEPT !.pc = "settled",
                                        !.outcome = [kind |-> "resolved", attempt |-> @.attempt,
                                                     error |-> <<>>]]]
             /\ UNCHANGED <<client, clientVars, stripVars, mdVars, parseVars, toolVars, analyzerVars>>
          \/ FlightFails(c, InvalidJson)
     ELSE FlightFails(c, Rethrown("Error", StatusError(flights[c].status, <<>>),
                                  client.retryOptions))

\* The sleep of call c ends: retryWithBackoff(fn, retryCount + 1) runs the
\* next attempt, with a controller and a timer of its own
FlightSleepEnds(c) ==
  /\ flights[c].pc = "sleeping"
  /\ flights' = [flights EXCEPT ![c] = [@ EXCEPT !.pc = "fetching",
                                                  !.retryCount = @ + 1,
                                                  !.attempts = @ + 1,
                                                  !.timer = flights[c].attempts + 1]]
  /\ UNCHANGED <<client, clientVars, stripVars, mdVars, parseVars, toolVars, analyzerVars>>

\* ------------------------------------------------------------------------
\* Specifications
\* ------------------------------------------------------------------------

\* The options of the test suite and the defaults, for each maxRetries
ThreadOptionChoices ==
  {[maxRetries |-> 1, initialDelay |-> 0, maxDelay |-> 0, timeout |-> 250],
   [maxRetries |-> DefaultMaxRetries, initialDelay |-> DefaultInitialDelay,
    maxDelay |-> DefaultMaxDelay, timeout |-> DefaultTimeout]}

ClientIdle == ClientInit(CHOOSE o \in ThreadOptionChoices : o.maxRetries = DefaultMaxRetries)

\* A client with any retry options serving a read call
Init ==
  /\ \E opts \in RetryOptionChoices : ClientInit(opts)
  /\ StripIdle
  /\ MdIdle
  /\ ParseIdle
  /\ ToolIdle
  /\ AnalyzerIdle
  /\ FlightsIdle

Next ==
  \/ StartReadCall
  \/ FetchRejects
  \/ TimerFires
  \/ FetchResolves
  \/ ErrorBodyRead
  \/ JsonRead
  \/ JsonFails
  \/ SleepEnds

Spec == Init /\ [][Next]_vars

\* The same client when timers fire: a pending timeout timer fires and a
\* backoff sleep ends, while the backend may stay silent for ever, before
\* the response headers or while the body is read
SpecTimersFire == Init /\ [][Next]_vars /\ WF_vars(TimerFires) /\ WF_vars(SleepEnds)

\* A client serving a call that posts a thread
InitThreads ==
  /\ \E opts \in ThreadOptionChoices : ClientInit(opts)
  /\ StripIdle
  /\ MdIdle
  /\ ParseIdle
  /\ ToolIdle
  /\ AnalyzerIdle
  /\ FlightsIdle

NextThreads ==
  \/ StartThreadCall
  \/ BackendApplies
  \/ FetchRejects
  \/ TimerFires
  \/ FetchResolves
  \/ ErrorBodyRead
  \/ JsonRead
  \/ JsonFails
  \/ SleepEnds

SpecThreads == InitThreads /\ [][NextThreads]_vars

\* stripHtml applied twice to any input
InitStrip ==
  /\ ClientIdle
  /\ MdIdle
  /\ ParseIdle
  /\ ToolIdle
  /\ AnalyzerIdle
  /\ FlightsIdle
  /\ stripIn \in StripInputs
  /\ stripOut = <<>>
  /\ stripPrev = <<>>
  /\ stripPasses = 0

NextStrip == StripCall

SpecStrip == InitStrip /\ [][NextStrip]_vars

\* markdownToHtml applied to any input
InitMarkdown ==
  /\ ClientIdle
  /\ StripIdle
  /\ ParseIdle
  /\ ToolIdle
  /\ AnalyzerIdle
  /\ FlightsIdle
  /\ mdText \in MdInputs \cup MdListInputs
  /\ mdPc = "start"
  /\ mdLines = <<>>
  /\ mdLoop = LoopInit
  /\ mdOut = <<>>

NextMarkdown ==
  \/ MdStart
  \/ MdStep
  \/ MdFinish

SpecMarkdown == InitMarkdown /\ [][NextMarkdown]_vars

\* parseTicketInput applied to any input
InitParse ==
  /\ ClientIdle
  /\ StripIdle
  /\ MdIdle
  /\ ToolIdle
  /\ AnalyzerIdle
  /\ FlightsIdle
  /\ parseIn \in ParseInputs
  /\ parseOut = NotParsed

NextParse == ParseCall

SpecParse == InitParse /\ [][NextParse]_vars

\* The server handling one ticket tool call
InitTools ==
  /\ \E opts \in ThreadOptionChoices : ClientInit(opts)
  /\ StripIdle
  /\ MdIdle
  /\ ParseIdle
  /\ ToolIdle
  /\ AnalyzerIdle
  /\ FlightsIdle

NextTools ==
  \/ CallTool
  \/ FetchRejects
  \/ TimerFires
  \/ FetchResolves
  \/ ErrorBodyRead
  \/ JsonRead
  \/ JsonFails
  \/ SleepEnds
  \/ ToolReturns

SpecTools == InitTools /\ [][NextTools]_vars

\* A client serving a search call
InitSearch ==
  /\ \E opts \in {o \in ThreadOptionChoices : o.maxRetries = 1} : ClientInit(opts)
  /\ StripIdle
  /\ MdIdle
  /\ ParseIdle
  /\ ToolIdle
  /\ AnalyzerIdle
  /\ FlightsIdle

NextSearch ==
  \/ StartSearchCall
  \/ FetchRejects
  \/ TimerFires
  \/ FetchResolves
  \/ ErrorBodyRead
  \/ JsonRead
  \/ JsonFails
  \/ SleepEnds

SpecSearch == InitSearch /\ [][NextSearch]_vars

\* analyzeConversation applied to any conversation
InitAnalyzer ==
  /\ ClientIdle
  /\ StripIdle
  /\ MdIdle
  /\ ParseIdle
  /\ ToolIdle
  /\ conversation \in Conversations
  /\ analysis = NotAnalyzed
  /\ analyzed = {}
  /\ FlightsIdle

NextAnalyzer == AnalyzeCall

SpecAnalyzer == InitAnalyzer /\ [][NextAnalyzer]_vars

\* One analyzer called again and again
InitAnalyzerCalls ==
  /\ ClientIdle
  /\ StripIdle
  /\ MdIdle
  /\ ParseIdle
  /\ ToolIdle
  /\ conversation \in CallConversations
  /\ analysis = NotAnalyzed
  /\ analyzed = {}
  /\ FlightsIdle

NextAnalyzerCalls ==
  \/ AnalyzeCall
  \/ NextConversation

SpecAnalyzerCalls == InitAnalyzerCalls /\ [][NextAnalyzerCalls]_vars

\* One client with several calls in flight, their steps interleaved
InitFlights ==
  /\ ClientIdle
  /\ StripIdle
  /\ MdIdle
  /\ ParseIdle
  /\ ToolIdle
  /\ AnalyzerIdle
  /\ FlightsIdle

NextFlights ==
  \E c \in CallIds :
    \/ FlightStart(c)
    \/ FlightFetchRejects(c)
    \/ FlightTimerFires(c)
    \/ FlightFetchResolves(c)
    \/ FlightBodyRead(c)
    \/ FlightSleepEnds(c)

SpecFlights == InitFlights /\ [][NextFlights]_vars

\* ------------------------------------------------------------------------
\* Properties of request and retryWithBackoff (checked under Spec)
\* ------------------------------------------------------------------------

\* C1: when every failed attempt of a call threw a retryable error, N
\* failures followed by a success take exactly min(N, maxRetries) + 1 fetch
\* calls: the call resolves with that success after N + 1 calls when
\* N <= maxRetries, and rejects with the last failure after exactly
\* maxRetries + 1 calls otherwise; no call ever makes more fetch calls.
C1_RetryBound ==
  /\ fetchCalls <= retryOptions.maxRetries + 1
  /\ (pc = "settled" /\ allRetryable /\ outcome.kind = "resolved") =>
       /\ failures <= retryOptions.maxRetries
       /\ fetchCalls = Min(failures, retryOptions.maxRetries) + 1
       /\ outcome.attempt = failures + 1
  /\ (pc = "settled" /\ allRetryable /\ outcome.kind = "rejected") =>
       /\ failures = retryOptions.maxRetries + 1
       /\ fetchCalls = retryOptions.maxRetries + 1
       /\ outcome.error = lastError

\* C1 witness: a call resolved by the attempt that follows maxRetries >= 2
\* retryable failures
C1_Witness ==
  /\ pc = "settled"
  /\ allRetryable
  /\ outcome.kind = "resolved"
  /\ failures = retryOptions.maxRetries
  /\ failures >= 2

\* C2: attempts of one call are issued strictly one after another (a fetch
\* call is made only by the first invocation or when a backoff sleep ends,
\* with every earlier attempt failed and its timer gone), nothing is
\* issued once the call has settled, and the outcome handed to the caller
\* is the result of the first successful attempt or the unmodified error of
\* the final attempt.
C2_StrictOrder ==
  [][/\ (fetchCalls' # fetchCalls) =>
          /\ fetchCalls' = fetchCalls + 1
          /\ pc \in {"idle", "sleeping"}
          /\ failures = fetchCalls
          /\ sleeps = fetchCalls
          /\ ~timerArmed
          /\ outcome = Pending
     /\ (outcome' # outcome) =>
          /\ outcome = Pending
          /\ pc' = "settled"
          /\ outcome'.attempt = fetchCalls
          /\ (outcome'.kind = "resolved") =>
               (failures' = fetchCalls - 1 /\ failures' = failures)
          /\ (outcome'.kind = "rejected") =>
               (failures' = fetchCalls /\ outcome'.error = lastError')
     /\ (pc = "settled") => (fetchCalls' = fetchCalls /\ outcome' = outcome)
    ]_vars

\* C2 witness: a call rejected by its third attempt, after two sleeps
C2_Witness ==
  /\ outcome.kind = "rejected"
  /\ fetchCalls = 3
  /\ sleeps = 2
  /\ outcome.error = lastError

\* C3: a response with status >= 500 never makes request reject while
\* fewer than maxRetries retries have been made.
C3_ServerErrorsRetried ==
  (outcome.kind = "rejected" /\ status >= 500) =>
    retryCount >= retryOptions.maxRetries

\* C4: the timeout error reaches the caller only after maxRetries + 1
\* attempts.
C4_TimeoutRetried ==
  (outcome.kind = "rejected" /\ outcome.error = TimeoutError(retryOptions.timeout)) =>
    fetchCalls = retryOptions.maxRetries + 1

\* A status that is not 2xx, not 429 and below 500
IsPermanentStatus(st) == st # 0 /\ ~ResponseOk(st) /\ st # 429 /\ st < 500

\* C5: once the body of a response with a permanent error status has been
\* read, request has rejected, without a retry, with an error carrying the
\* status code and the body text, whatever the body text is.
C5_PermanentNeverRetried ==
  (IsPermanentStatus(status) /\ pc # "body") =>
    /\ pc = "settled"
    /\ outcome.kind = "rejected"
    /\ \E errorText \in ErrorTexts :
         /\ outcome.error = lastError
         /\ Includes(outcome.error, ToStr(status))
         /\ Includes(outcome.error, errorText)

\* C6: the sleep before retry number k lasts
\* min(initialDelay * 2^k + jitter, maxDelay) with 0 <= jitter < 1000, so it
\* is at most maxDelay; the attempt counter grows by one per retry (it
\* equals the number of sleeps that have ended); and a call whose attempts
\* all fail with retryable errors sleeps exactly maxRetries times.
C6_Backoff ==
  /\ jitter >= 0 /\ jitter < JitterRange
  /\ sleeps <= retryOptions.maxRetries
  /\ (pc = "sleeping") =>
       /\ sleeps = retryCount + 1
       /\ delay <= retryOptions.maxDelay
       /\ delay = IF retryOptions.initialDelay * (2 ^ retryCount) + jitter
                       <= retryOptions.maxDelay
                  THEN retryOptions.initialDelay * (2 ^ retryCount) + jitter
                  ELSE retryOptions.maxDelay
  /\ (pc \in {"fetching", "body", "settled"}) => sleeps = retryCount
  /\ (pc = "settled" /\ outcome.kind = "rejected" /\ allRetryable) =>
       sleeps = retryOptions.maxRetries

\* C6 witness: the third sleep of a call, cut down to maxDelay
C6_Witness ==
  /\ pc = "sleeping"
  /\ retryCount = 2
  /\ retryOptions.initialDelay * 4 + jitter > retryOptions.maxDelay
  /\ delay = retryOptions.maxDelay
  /\ delay > 0

\* ------------------------------------------------------------------------
\* Properties of the thread operations (checked under SpecThreads)
\* ------------------------------------------------------------------------

MarkdownNote == <<"*","*","b","o","l","d","*","*","\n","\n","-"," ","i","t","e","m">>

\* C7: when addThread is given a Markdown note, the body of every POST it
\* sends holds the HTML rendering of the note.
C7_NotesRendered ==
  (call.name = "addThread" /\ call.type = "note" /\ call.text = MarkdownNote
     /\ fetchCalls > 0) =>
    /\ sent.method = "POST"
    /\ Includes(sent.body.text, <<"<","s","t","r","o","n","g",">","b","o","l","d","<","/","s","t","r","o","n","g",">">>)
    /\ Includes(sent.body.text, <<"<","u","l",">">>)
    /\ Includes(sent.body.text, <<"<","l","i",">","i","t","e","m","<","/","l","i",">">>)

\* C8: every request sent for createDraftReply(id, text, userId), retries
\* included, is a POST to /conversations/<id>/threads whose body has type
\* message, state draft and the rendered text; no other state is ever sent.
C8_DraftReply ==
  (call.name = "createDraftReply" /\ fetchCalls > 0) =>
    /\ sent.method = "POST"
    /\ sent.path = <<"/","c","o","n","v","e","r","s","a","t","i","o","n","s","/">> \o call.ticketId \o <<"/","t","h","r","e","a","d","s">>
    /\ sent.body.type = "message"
    /\ "state" \in DOMAIN sent.body
    /\ sent.body.state = "draft"
    /\ sent.body.text = markdownToHtml(call.text)
    /\ sent = req

\* C8 witness: a retry of createDraftReply on a Markdown text has been sent
C8_Witness ==
  /\ call.name = "createDraftReply"
  /\ call.text = MarkdownNote
  /\ fetchCalls >= 2
  /\ pc = "fetching"

\* ------------------------------------------------------------------------
\* Properties of markdownToHtml (checked under SpecMarkdown)
\* ------------------------------------------------------------------------

\* C9: the HTML markdownToHtml returns contains no script tag.
C9_NoScriptTag ==
  (mdPc = "done") => ~Includes(mdOut, <<"<","s","c","r","i","p","t">>)

\* ------------------------------------------------------------------------
\* Properties of stripHtml (checked under SpecStrip)
\* ------------------------------------------------------------------------

\* The entities stripHtml decodes
Entities == {<<"&","n","b","s","p",";">>, <<"&","l","t",";">>, <<"&","g","t",";">>, <<"&","q","u","o","t",";">>, <<"&","#","3","9",";">>, <<"&","a","m","p",";">>}

HasEntity(s) == \E e \in Entities : Includes(s, e)

\* C10 as stated: a second pass of stripHtml changes nothing, for every
\* input.
C10_Idempotent ==
  (stripPasses = 2) => stripOut = stripPrev

\* C10 amended: a second pass of stripHtml changes nothing for every input
\* that holds none of the entities stripHtml decodes.
C10_IdempotentWithoutEntities ==
  (stripPasses = 2 /\ ~HasEntity(stripIn)) => stripOut = stripPrev

\* C10 witness: an input with a tag and no entity, normalized twice
C10_Witness ==
  /\ stripPasses = 2
  /\ ~HasEntity(stripIn)
  /\ Includes(stripIn, <<"<","b",">">>)
  /\ Len(stripPrev) > 0
  /\ stripPrev # stripIn

\* C11 as stated: stripHtml of the doubly encoded ampersand "&amp;amp;"
\* returns the bare ampersand "&".
C11_DoubleAmpToBare ==
  (stripPasses = 1 /\ stripIn = <<"&","a","m","p",";","a","m","p",";">>) => stripOut = <<"&">>

\* C11 amended: stripHtml removes one level of encoding only, because the
\* ampersand is decoded last and in a single pass: "&amp;amp;" gives
\* "&amp;" and "&amp;lt;" gives "&lt;".
C11_SingleDecode ==
  /\ (stripPasses = 1 /\ stripIn = <<"&","a","m","p",";","a","m","p",";">>) => stripOut = <<"&","a","m","p",";">>
  /\ (stripPasses = 1 /\ stripIn = <<"&","a","m","p",";","l","t",";">>) => stripOut = <<"&","l","t",";">>

\* C11 witness: the doubly encoded ampersand normalized once
C11_Witness ==
  /\ stripPasses = 1
  /\ stripIn = <<"&","a","m","p",";","a","m","p",";">>
  /\ stripOut = <<"&","a","m","p",";">>

\* ------------------------------------------------------------------------
\* Properties of parseTicketInput (checked under SpecParse)
\* ------------------------------------------------------------------------

\* Positions of a '#' directly followed by a digit
HashDigitStarts(s) == {i \in 1..Len(s) : s[i] = "#" /\ DigitAt(s, i + 1)}

\* The text holds a conversation(s)/<digits> segment
HasConversationId(s) == extractTicketIdFromUrl(s) # Null

\* The text holds a digit
HasDigit(s) == \E i \in 1..Len(s) : IsDigit(s[i])

C13_RunAfterHash ==
  (/\ parseOut # NotParsed
   /\ HashDigitStarts(parseIn) # {}
   /\ ~IsNumeric(Trim(parseIn))
   /\ ~HasConversationId(parseIn))
  => parseOut = Returned(DigitRunAt(parseIn, First(HashDigitStarts(parseIn)) + 1))

\* ------------------------------------------------------------------------
\* Properties of the tool handler (checked under SpecTools)
\* ------------------------------------------------------------------------

\* C14: in every ticket tool, parseTicketInput runs before any client call:
\* a request is sent only for a ticket that was parsed, with the parsed id;
\* when the ticket cannot be parsed no fetch call is made, no backoff sleep
\* is started, and the text the handler reports contains the raw input.
C14_ParseBeforeBackend ==
  LET parsed == parseTicketInput(tool.ticket)
  IN (tool # NoTool)
     => /\ (fetchCalls > 0) => (parsed.kind = "return" /\ call.ticketId = parsed.value)
        /\ (parsed.kind = "throw")
             => /\ toolPc = "done"
                /\ fetchCalls = 0
                /\ sleeps = 0
                /\ pc = "idle"
                /\ call = NoCall
                /\ Includes(toolResult, tool.ticket)

\* C14 witness: the draft tool was handed a ticket that cannot be parsed
C14_Witness ==
  /\ tool.name = "freescout_create_draft_reply"
  /\ tool.ticket = <<"n","o","t"," ","a"," ","t","i","c","k","e","t">>
  /\ toolPc = "done"
  /\ fetchCalls = 0
  /\ toolResult = <<"E","r","r","o","r",":"," ","C","o","u","l","d"," ","n","o","t"," ","e","x","t","r","a","c","t"," ","t","i","c","k","e","t"," ","I","D"," ","f","r","o","m"," ","i","n","p","u","t",":"," ","n","o","t"," ","a"," ","t","i","c","k","e","t">>

\* ------------------------------------------------------------------------
\* Properties of searchConversations (checked under SpecSearch)
\* ------------------------------------------------------------------------

\* s.split(c)
RECURSIVE SplitOn(_, _)
SplitOn(s, c) ==
  LET j == NextChar(s, 1, c)
  IN IF j = 0 THEN <<s>>
     ELSE <<SubSeq(s, 1, j - 1)>> \o SplitOn(SubSeq(s, j + 1, Len(s)), c)

\* The name=value pieces of the query string of a request path
QueryPieces(path) ==
  LET q == NextChar(path, 1, "?")
      query == SubSeq(path, q + 1, Len(path))
  IN IF q = 0 \/ Len(query) = 0 THEN <<>> ELSE SplitOn(query, "&")

\* The values the query string of a path gives to the parameter name, in
\* the order they are written
ParamValues(path, name) ==
  LET pieces == QueryPieces(path)
      IsNamed(piece) == MatchAt(piece, 1, name \o <<"=">>)
      named == SelectSeq(pieces, IsNamed)
  IN [k \in 1..Len(named) |-> SubSeq(named[k], Len(name) + 2, Len(named[k]))]

\* A search request was sent
SearchSent == call # NoCall /\ call.name = "searchConversations" /\ fetchCalls > 0

C16_StatusAllCommaSeparated ==
  (SearchSent /\ call.filters.status = "all")
  => Includes(sent.path, <<"s","t","a","t","u","s","=","a","c","t","i","v","e","%","2","C","p","e","n","d","i","n","g","%","2","C","c","l","o","s","e","d","%","2","C","s","p","a","m">>)

\* C17: the query string of a search holds no assignee parameter when the
\* selector is absent or 'any', the one parameter assignee=null when it is
\* 'unassigned', and the one parameter assignee=<id> for a user id, 0
\* included; it never holds more than one assignee parameter.
C17_AssigneeSelector ==
  SearchSent
  => LET assignees == ParamValues(sent.path, <<"a","s","s","i","g","n","e","e">>)
         selector == call.filters.assignee
     IN /\ Len(assignees) <= 1
        /\ (selector.kind \in {"undefined", "any"}) => assignees = <<>>
        /\ (selector.kind = "unassigned") => assignees = <<<<"n","u","l","l">>>>
        /\ (selector.kind = "id") => assignees = <<ToStr(selector.id)>>

\* C17 witness: a search for the user id 0 was sent with assignee=0
C17_Witness ==
  /\ SearchSent
  /\ call.filters.assignee = [kind |-> "id", id |-> 0]
  /\ Includes(sent.path, <<"a","s","s","i","g","n","e","e","=","0">>)
  /\ ParamValues(sent.path, <<"a","s","s","i","g","n","e","e">>) = <<<<"0">>>>

\* ------------------------------------------------------------------------
\* Properties of analyzeConversation (checked under SpecAnalyzer)
\* ------------------------------------------------------------------------

\* The normalized texts of the customer threads of the conversation
CustomerTexts == StrippedBodies(ThreadsOfType(conversation.threads, "customer"))

\* The normalized texts of the customer threads after the first that are
\* longer than 50 characters
LongFollowUps ==
  LET IsLong(text) == Len(text) > 50
  IN IF Len(CustomerTexts) = 0 THEN <<>> ELSE SelectSeq(Tail(CustomerTexts), IsLong)

\* C18: with no customer thread issueDescription is 'No customer messages
\* found'; with no follow-up longer than 50 characters it is the first
\* customer text alone; with one or more such follow-ups it is the first
\* customer text followed by a blank line and the label 'Additional
\* context:' before the follow-up text.
C18_AdditionalContextLabel ==
  (analysis # NotAnalyzed)
  => /\ (Len(CustomerTexts) = 0)
          => analysis.issueDescription = <<"N","o"," ","c","u","s","t","o","m","e","r"," ","m","e","s","s","a","g","e","s"," ","f","o","u","n","d">>
     /\ (Len(CustomerTexts) > 0 /\ Len(LongFollowUps) = 0)
          => analysis.issueDescription = CustomerTexts[1]
     /\ (Len(LongFollowUps) > 0)
          => MatchAt(analysis.issueDescription, 1,
                     CustomerTexts[1] \o <<"\n","\n","A","d","d","i","t","i","o","n","a","l"," ","c","o","n","t","e","x","t",":","\n">> \o LongFollowUps[1])

\* The lower-cased normalized text of some thread holds one of the keywords
SomeThreadHas(keywords) ==
  \E k \in 1..Len(conversation.threads) :
    ContainsAny(toLowerCase(stripHtml(conversation.threads[k].body)), keywords)

\* C19: isBug is true exactly when the lower-cased normalized text of the
\* threads holds no third-party indicator, no feature-request phrase and
\* no configuration keyword; rootCause is the third-party label, else the
\* configuration label, else the feature-request label, else undefined;
\* isBug holds iff rootCause is undefined, and isThirdPartyIssue implies
\* not isBug.
C19_IssueType ==
  (analysis # NotAnalyzed)
  => LET thirdParty == SomeThreadHas(thirdPartyIndicators)
         feature == SomeThreadHas(featureKeywords)
         config == SomeThreadHas(configKeywords)
     IN /\ analysis.isBug <=> (~thirdParty /\ ~feature /\ ~config)
        /\ analysis.isThirdPartyIssue <=> thirdParty
        /\ analysis.rootCause =
             (IF thirdParty THEN "Third-party plugin or system limitation"
              ELSE IF config THEN "Configuration or setup issue"
              ELSE IF feature THEN "Feature request, not a bug"
              ELSE Undefined)
        /\ analysis.isBug <=> (analysis.rootCause = Undefined)
        /\ analysis.isThirdPartyIssue => ~analysis.isBug

\* C19 witness: a conversation with a third-party indicator, a feature
\* phrase and a configuration keyword was given the third-party label
C19_Witness ==
  /\ analysis # NotAnalyzed
  /\ SomeThreadHas(thirdPartyIndicators)
  /\ SomeThreadHas(featureKeywords)
  /\ SomeThreadHas(configKeywords)
  /\ analysis.rootCause = "Third-party plugin or system limitation"
  /\ ~analysis.isBug

\* C20: testedByTeam implies isReproducible, and testedByTeam is true only
\* if a thread of type note holds a test keyword.
C20_TestedImpliesReproducible ==
  (analysis # NotAnalyzed)
  => /\ analysis.testedByTeam => analysis.isReproducible
     /\ analysis.testedByTeam
          => \E k \in 1..Len(conversation.threads) :
               /\ conversation.threads[k].type = "note"
               /\ ContainsAny(toLowerCase(stripHtml(conversation.threads[k].body)),
                              testKeywords)

\* C20 witness: a note with a test keyword made the ticket reproducible
\* although no thread holds a reproduction phrase
C20_Witness ==
  /\ analysis # NotAnalyzed
  /\ analysis.testedByTeam
  /\ analysis.isReproducible
  /\ ~SomeThreadHas(reproducibleKeywords)
  /\ \E k \in 1..Len(conversation.threads) : conversation.threads[k].type = "customer"

\* No two elements of the list are equal
NoDuplicates(list) == \A i, j \in 1..Len(list) : i # j => list[i] # list[j]

\* The list holds the elements of pushed, each once, ordered by their first
\* position in pushed
InOrderOfFirstAppearance(list, pushed) ==
  LET FirstAt(x) == First({k \in 1..Len(pushed) : pushed[k] = x})
  IN /\ {list[k] : k \in 1..Len(list)} = {pushed[k] : k \in 1..Len(pushed)}
     /\ \A i, j \in 1..Len(list) : i < j => FirstAt(list[i]) < FirstAt(list[j])

\* C21: codeSnippets and errorMessages hold no two equal strings, and each
\* keeps its elements in the order in which they first appear across the
\* threads.
C21_NoDuplicatesInOrder ==
  (analysis # NotAnalyzed)
  => /\ NoDuplicates(analysis.codeSnippets)
     /\ NoDuplicates(analysis.errorMessages)
     /\ InOrderOfFirstAppearance(analysis.codeSnippets, PushedSnippets(conversation.threads))
     /\ InOrderOfFirstAppearance(analysis.errorMessages, PushedErrors(conversation.threads))

\* C21 witness: two threads with the same body gave every error message
\* twice, and the analysis holds each once
C21_Witness ==
  /\ analysis # NotAnalyzed
  /\ Len(analysis.errorMessages) = 2
  /\ Len(PushedErrors(conversation.threads)) = 4

BulletItemLines == {<<"-"," ","i","t","e","m">>, <<"*"," ","i","t","e","m">>}

\* The lines of the text handed to markdownToHtml
InputLines == SplitLines(mdText)

\* One <ul> holding n <li>item</li> elements
BulletListOf(n) ==
  Join(<<<<"<","u","l",">">>>> \o [k \in 1..n |-> <<"<","l","i",">","i","t","e","m","<","/","l","i",">">>] \o <<<<"<","/","u","l",">">>>>, <<"\n","\n">>)

\* C23: markdownToHtml renders a text made of a run of '- item' or
\* '* item' lines as one <ul> with one <li> per line, for runs of one, two
\* or more lines and for both bullet characters.
C23_BulletRunOneList ==
  (mdPc = "done" /\ \A k \in 1..Len(InputLines) : InputLines[k] \in BulletItemLines)
    => mdOut = BulletListOf(Len(InputLines))

\* Line i of the loop is a blank line read while a list is open
BlankLineInList ==
  /\ mdPc = "loop"
  /\ mdLoop.i <= Len(mdLines)
  /\ Len(Trim(mdLines[mdLoop.i])) = 0
  /\ (mdLoop.inOrderedList \/ mdLoop.inUnorderedList)

\* The list that was open before the step is open after it
ListKeptOpen ==
  /\ mdLoop'.inOrderedList = mdLoop.inOrderedList
  /\ mdLoop'.inUnorderedList = mdLoop.inUnorderedList
  /\ mdLoop'.processedLines = mdLoop.processedLines

\* The open list was closed by the step
ListClosed ==
  /\ ~mdLoop'.inOrderedList
  /\ ~mdLoop'.inUnorderedList
  /\ mdLoop'.processedLines =
       CloseLists(mdLoop.processedLines, mdLoop.inOrderedList, mdLoop.inUnorderedList)

\* The next non-blank line after line i is a list item of either kind
NextNonBlankIsItem(i) ==
  \E k \in (i + 1)..Len(mdLines) :
    /\ IsListItemLine(mdLines[k])
    /\ \A j \in (i + 1)..(k - 1) : Len(Trim(mdLines[j])) = 0

\* C24: a blank line inside an open list keeps the list open only when the
\* next non-blank line is a list item of either kind, and closes the list
\* otherwise.
C24_OpenOnlyIfNextNonBlankIsItem ==
  [][BlankLineInList =>
       IF NextNonBlankIsItem(mdLoop.i) THEN ListKeptOpen ELSE ListClosed]_vars

\* The element of processedLines is the tag t
IsTag(element, t) == element = t

\* The element of processedLines is a list item
IsListItemElement(element) == MatchAt(element, 1, <<"<","l","i",">">>)

\* The list that is open after the first n elements of out: "ol", "ul",
\* "none", or "bad" when a list tag or a list item is out of place
RECURSIVE OpenListAfter(_, _)
OpenListAfter(out, n) ==
  IF n = 0 THEN "none"
  ELSE LET before == OpenListAfter(out, n - 1)
           e == out[n]
       IN IF before = "bad" THEN "bad"
          ELSE IF IsTag(e, <<"<","o","l",">">>) THEN (IF before = "none" THEN "ol" ELSE "bad")
          ELSE IF IsTag(e, <<"<","u","l",">">>) THEN (IF before = "none" THEN "ul" ELSE "bad")
          ELSE IF IsTag(e, <<"<","/","o","l",">">>) THEN (IF before = "ol" THEN "none" ELSE "bad")
          ELSE IF IsTag(e, <<"<","/","u","l",">">>) THEN (IF before = "ul" THEN "none" ELSE "bad")
          ELSE IF IsListItemElement(e) THEN (IF before = "none" THEN "bad" ELSE before)
          ELSE (IF before = "none" THEN "none" ELSE "bad")

\* The list the flags of the loop say is open
OpenListFlag ==
  IF mdLoop.inOrderedList THEN "ol"
  ELSE IF mdLoop.inUnorderedList THEN "ul" ELSE "none"

\* C28: at every point of the line loop at most one of inOrderedList and
\* inUnorderedList is set, the paragraph buffer is empty whenever a list
\* is open, the lists emitted so far are opened and closed in order with
\* every <li> inside an open list and the open list is the one the flags
\* name; the returned HTML has every list closed.
C28_LoopInvariant ==
  /\ (mdPc = "loop") =>
       /\ ~(mdLoop.inOrderedList /\ mdLoop.inUnorderedList)
       /\ (mdLoop.inOrderedList \/ mdLoop.inUnorderedList) => mdLoop.currentParagraph = <<>>
       /\ OpenListAfter(mdLoop.processedLines, Len(mdLoop.processedLines)) = OpenListFlag
  /\ (mdPc = "done") =>
       LET out == FlushParagraph(CloseLists(mdLoop.processedLines, mdLoop.inOrderedList,
                                            mdLoop.inUnorderedList),
                                 mdLoop.currentParagraph)
       IN /\ OpenListAfter(out, Len(out)) = "none"
          /\ mdOut = Join(out, <<"\n","\n">>)

\* C28 witness: a paragraph, an ordered list and an unordered list were
\* emitted in turn and the unordered list is the open one
C28_Witness ==
  /\ mdPc = "loop"
  /\ mdLoop.inUnorderedList
  /\ \E a, b, c \in 1..Len(mdLoop.processedLines) :
       /\ a < b /\ b < c
       /\ MatchAt(mdLoop.processedLines[a], 1, <<"<","p",">">>)
       /\ mdLoop.processedLines[b] = <<"<","/","o","l",">">>
       /\ mdLoop.processedLines[c] = <<"<","u","l",">">>

\* ------------------------------------------------------------------------
\* Properties of the timeout timer (checked under Spec)
\* ------------------------------------------------------------------------

\* C26: every attempt has its own timeout timer, pending exactly while the
\* attempt's fetch is pending: it is cleared as soon as fetch resolves or
\* rejects, it is never carried into a later attempt, and no timer is
\* pending once the request has settled.
C26_TimerPerAttempt ==
  /\ [](timerArmed <=> pc = "fetching")
  /\ [][(timerArmed /\ timerArmed') => fetchCalls' = fetchCalls]_vars

\* C26 witness: the first attempt's fetch resolved with a retryable error
\* status, the second attempt's fetch resolved and the request has settled
C26_Witness ==
  /\ pc = "settled"
  /\ outcome.kind = "resolved"
  /\ fetchCalls = 2
  /\ failures = 1
  /\ ~timerArmed

\* ------------------------------------------------------------------------
\* Properties of the posts and the backend (checked under SpecThreads)
\* ------------------------------------------------------------------------

\* C27: for one addThread or createDraftReply call the backend carries out
\* at most one POST attempt, also when an attempt it carried out is
\* reported to the client as a retryable failure and retried.
C27_PostAppliedAtMostOnce ==
  (call # NoCall /\ call.name \in {"addThread", "createDraftReply"})
    => Cardinality(applied) <= 1

\* ------------------------------------------------------------------------
\* Termination of request (checked under SpecTimersFire)
\* ------------------------------------------------------------------------

\* C29: every call to request eventually settles, after at most
\* maxRetries + 1 attempts and at most maxRetries sleeps, when timers fire
\* and the backend may stay silent at any point of an attempt.
C29_EventuallySettles ==
  /\ [](fetchCalls <= retryOptions.maxRetries + 1 /\ sleeps <= retryOptions.maxRetries)
  /\ (pc # "idle") ~> (pc = "settled")

\* ------------------------------------------------------------------------
\* Error reporting of the tool handler (checked under SpecTools)
\* ------------------------------------------------------------------------

\* The handler returned the text 'Error: ' followed by a text that holds
\* the message
ReportedAsError(message) ==
  /\ toolPc = "done"
  /\ MatchAt(toolResult, 1, <<"E","r","r","o","r",":"," ">>)
  /\ Includes(SubSeq(toolResult, 8, Len(toolResult)), message)

\* C30: the tool-call handler never throws to the transport: missing
\* arguments, an unknown tool name, a ticket that cannot be parsed and a
\* client error after the retries are each returned as the text
\* 'Error: <message>' that holds the message of the error.
C30_NeverThrows ==
  /\ toolPc # "thrown"
  /\ (toolPc # "idle" /\ ~params.hasArguments) => ReportedAsError(ArgumentsMissing)
  /\ (toolPc # "idle" /\ params.hasArguments /\ params.name \in UnknownTools)
       => ReportedAsError(<<"U","n","k","n","o","w","n"," ","t","o","o","l",":"," ","f","r","e","e","s","c","o","u","t","_","d","e","l","e","t","e","_","t","i","c","k","e","t">>)
  /\ (tool # NoTool /\ parseTicketInput(tool.ticket).kind = "throw")
       => ReportedAsError(parseTicketInput(tool.ticket).value)
  /\ (toolPc = "done" /\ tool # NoTool /\ pc = "settled" /\ outcome.kind = "rejected")
       => ReportedAsError(outcome.error)

\* ------------------------------------------------------------------------
\* Properties of concurrent calls (checked under SpecFlights)
\* ------------------------------------------------------------------------

\* The step is a step of call c alone: every other call keeps its pending
\* attempt, its timer, its retry counter and its outcome
OnlyCallMoves(c) == \A d \in CallIds \ {c} : flights'[d] = flights[d]

\* The timer and the retry counter of a call are its own: a timer is
\* pending exactly while the call's own attempt is fetching and it is that
\* attempt's timer, the retry counter counts the call's own failed
\* attempts, and the call gives up on a retryable error only when its own
\* retries are used up
OwnTimerAndRetries(f) ==
  /\ (f.pc = "fetching") <=> (f.timer # 0)
  /\ f.timer # 0 => f.timer = f.attempts
  /\ f.pc # "idle" => f.retryCount = f.attempts - 1
  /\ f.attempts <= client.retryOptions.maxRetries + 1
  /\ (f.pc = "settled" /\ f.outcome.kind = "rejected" /\ isRetryable(f.outcome.error))
       => f.attempts = client.retryOptions.maxRetries + 1

\* C25: with several request calls in flight on one client, each attempt
\* has its own controller and timer and each call its own retry counter:
\* a timeout or a failure of one call never aborts an attempt of another
\* call nor uses up its retries, and no call writes baseUrl, apiKey or
\* retryOptions.
C25_CallsIndependent ==
  /\ [](\A c \in CallIds : OwnTimerAndRetries(flights[c]))
  /\ [][\A c \in CallIds : flights'[c] # flights[c] => OnlyCallMoves(c)]_vars
  /\ [][client' = client]_vars

\* C25 witness: the first call timed out and was rejected while the second
\* call, after a failure of its own, is fetching in its second attempt
C25_Witness ==
  /\ flights[1].pc = "settled"
  /\ flights[1].outcome.error = TimeoutError(client.retryOptions.timeout)
  /\ flights[2].pc = "fetching"
  /\ flights[2].attempts = 2
  /\ flights[2].timer = 2

====
